---- MODULE Spec2Model ----
(***************************************************************************)
(* Milestone label layout of the "meanwhile" timeline.                     *)
(*                                                                         *)
(*  - the landscape collapse engine layoutLandscapeMilestonesCore with its *)
(*    wrapper layoutLandscapeMilestones (src/src/components/WeeklyView.tsx)*)
(*  - the nearest-lane row assignment assignRows (src/unnamed/part_002)    *)
(*  - the pregnancy-month sections of MonthlyView (src/src/constants.ts,   *)
(*    src/unnamed/part_002)                                                *)
(*  - the cellSize memo of the two WeeklyView variants                     *)
(*    (src/src/components/WeeklyView.tsx, src/unnamed/part_001)            *)
(*  - the configuration validator validateConfig                           *)
(*    (src/worker/src/services/validator.ts)                               *)
(*                                                                         *)
(* Pixel quantities are integers.  Every comparison of the source that     *)
(* involves width / 2 is modelled on doubled quantities, which is exact.   *)
(***************************************************************************)
EXTENDS Integers, Sequences, FiniteSets, TLC

\* ------------------------------------------------------------------------
\* Program constants
\* ------------------------------------------------------------------------
ROW_HEIGHT == 42
MILESTONE_PADDING == 20
MILESTONE_GAP == 8
EMOJI_WIDTH == 18
EXPANDED_WIDTH == 120
COLLAPSED_WIDTH == 24

\* ------------------------------------------------------------------------
\* Bounds of the model
\* ------------------------------------------------------------------------
\* largest number of items handed to the collapse engine
MaxItems == 5

\* pixel centres the items of the collapse engine are drawn from:
\* 128 = two expanded labels exactly touching, 80 = expanded/collapsed
\* touching, 32 = two collapsed labels touching, 48 = in between
PositionsPx == {0, 32, 80, 128}
\* BaseMilestone.position values (percent of the container width)
PositionsPct == {0, 8, 20, 32}
ContainerWidths == {0, 100, 400}
HeightBudgets == {10, 42, 100}
\* assignRows: longest run of milestones on consecutive days, and number of further milestones
MaxCluster == 20
MaxFree == 2
\* assignRows: positions of the further milestones, and container widths
RowsPositionsPct == {0, 8, 58}
RowsContainerWidths == {100, 400}
\* labels: <<measureTextWidth result, annotation has an emoji>>
Labels == {<<30, FALSE>>, <<200, TRUE>>}

\* ------------------------------------------------------------------------
\* State
\* ------------------------------------------------------------------------
VARIABLES
    caller,             \* "gantt": core called by computeGanttBars, "wrapper": by layoutLandscapeMilestones
    milestones,         \* wrapper argument: sequence of BaseMilestone
    containerWidth,     \* wrapper argument
    maxHeight,          \* opts.maxHeight / wrapper argument
    unsortedMilestones, \* core argument
    layouts,            \* core local: sorted items with width, top, collapsed
    iter,               \* core local: loop counter of the collapse loop
    pc,                 \* position in the code
    ok,                 \* core return value: "none" until the core returns
    result,             \* wrapper return value
    passes,             \* number of runPass calls of this run
    \* assignRows (TimelineLandscape without the collapse engine)
    rowsContainerWidth, \* argument containerWidth
    sorted,             \* local: the milestones with their widths, sorted by position
    rowOccupancy,       \* local: Map row -> occupied ranges (doubled pixels)
    rowsResult,         \* local: result, one entry per processed milestone
    rowsPc,             \* position in assignRows
    \* MonthlyView, monthSections memo
    totalDays,          \* days.length
    startDow,           \* startDate.getDay() of MonthlyView: 0 is Sunday
    monthSections,      \* local: the sections pushed so far
    monthPc,            \* position in the memo
    \* WeeklyView, cellSize memo
    gridView,           \* which WeeklyView: "WeeklyView.tsx" or "part_001"
    windowSize,         \* prop windowSize: [width, height]
    isLandscape,        \* prop isLandscape
    mode,               \* prop mode: "weekly" or "monthly"
    gridTotalDays,      \* days.length
    startDayOfWeek,     \* startDate.getDay(), Sunday = 0
    grid,               \* locals and result of the memo; fractions are <<numerator, denominator>>
    gridPc,             \* position in the memo
    \* validateConfig
    configString,       \* argument: [parses, value] = whether JSON.parse succeeds, and its result
    validation,         \* return value, with the issues of safeParse
    cfgPc,              \* position in validateConfig and in the path to the Gantt bars
    \* TimelineView and TimelineLandscape, Gantt path
    appStartDate,       \* prop startDate, in days
    appTotalDays,       \* prop totalDays
    appMilestones,      \* prop milestones
    rangeMilestoneLookup, \* memo of TimelineView, entries in key order
    ganttContainerWidth,  \* containerWidth of TimelineLandscape
    maxGanttLabelHeight,  \* maxGanttLabelHeight of TimelineLandscape
    ganttBars,          \* memo of TimelineLandscape
    calView,            \* the calendar view that is rendered
    calStartDay,        \* startDate.getDay(): 0 is Sunday
    calTotalDays,       \* days.length of the calendar view
    calCellSize,        \* cellSize of the calendar view
    calHeader,          \* the weekday labels of the columns, in column order
    calWeeks,           \* the rows of cells under the header: day index, -1 for an empty cell
    forDayIndex,        \* dayIndex passed to getMonthForDay
    forTotalDays,       \* totalDays passed to getMonthForDay (0: not called yet)
    monthForDay,        \* what getMonthForDay returned (-1: not called yet)
    monthlyWindowSize,  \* windowSize prop of MonthlyView
    monthlyIsLandscape, \* isLandscape prop of MonthlyView
    monthlyGrid,        \* cellSize, labelSize and gap of the MonthlyView memo
    versionTapCount,    \* versionTapCount.current
    versionTapTimer,    \* versionTapTimer.current: the id of the last timer set, 0 for null
    pendingTapTimers,   \* ids of the timers that window.setTimeout holds
    nextTimerId,        \* the id that the next window.setTimeout returns
    shownVersions,      \* number of calls of onShowVersion
    tapCalls,           \* number of calls of handleVersionTap
    tapStreak,          \* taps since the last timer expiry or call of onShowVersion
    activeEffect,       \* the run of the effect that has not been cleaned up, 0 for none
    effectsRun,         \* number of runs of the effect
    timeoutId,          \* timeoutId of each run of the effect, 0 for null
    pendingPollTimers,  \* the timers that window.setTimeout holds: id, delay and the run that set them
    nextPollTimerId,    \* the id that the next window.setTimeout returns
    resizeListeners,    \* the runs whose updateSize is a registered resize listener
    refAttached,        \* contentRef.current is an element
    slowPolling,        \* 3000ms or more have passed since startTime of the active run
    sizeUpdates,        \* number of calls of setContentSize
    resizeEvents,       \* number of resize events
    lateUpdates         \* calls of updateSize by a timer or listener of a run that was cleaned up

landscapeVars == <<caller, milestones, containerWidth, maxHeight, unsortedMilestones,
                   layouts, iter, pc, ok, result, passes>>

rowsVars == <<rowsContainerWidth, sorted, rowOccupancy, rowsResult, rowsPc>>

monthVars == <<totalDays, startDow, monthSections, monthPc>>

gridVars == <<gridView, windowSize, isLandscape, mode, gridTotalDays, startDayOfWeek,
              grid, gridPc>>

configVars == <<configString, validation, cfgPc, appStartDate, appTotalDays, appMilestones,
                rangeMilestoneLookup, ganttContainerWidth, maxGanttLabelHeight, ganttBars>>

calendarVars == <<calView, calStartDay, calTotalDays, calCellSize, calHeader, calWeeks>>

monthForDayVars == <<forDayIndex, forTotalDays, monthForDay>>

monthlyGridVars == <<monthlyWindowSize, monthlyIsLandscape, monthlyGrid>>

versionTapVars == <<versionTapCount, versionTapTimer, pendingTapTimers, nextTimerId, shownVersions, tapCalls, tapStreak>>

contentSizeVars == <<activeEffect, effectsRun, timeoutId, pendingPollTimers, nextPollTimerId, resizeListeners, refAttached, slowPolling, sizeUpdates, resizeEvents, lateUpdates>>

vars == <<landscapeVars, rowsVars, monthVars, gridVars, configVars, calendarVars, monthForDayVars, monthlyGridVars, versionTapVars, contentSizeVars>>

\* what the actions of one component leave alone
nonLandscapeVars == <<rowsVars, monthVars, gridVars, configVars, calendarVars, monthForDayVars, monthlyGridVars, versionTapVars, contentSizeVars>>
nonRowsVars == <<landscapeVars, monthVars, gridVars, configVars, calendarVars, monthForDayVars, monthlyGridVars, versionTapVars, contentSizeVars>>
nonMonthVars == <<landscapeVars, rowsVars, gridVars, configVars, calendarVars, monthForDayVars, monthlyGridVars, versionTapVars, contentSizeVars>>
nonGridVars == <<landscapeVars, rowsVars, monthVars, configVars, calendarVars, monthForDayVars, monthlyGridVars, versionTapVars, contentSizeVars>>
nonConfigVars == <<landscapeVars, rowsVars, monthVars, gridVars, calendarVars, monthForDayVars, monthlyGridVars, versionTapVars, contentSizeVars>>
nonCalendarVars == <<landscapeVars, rowsVars, monthVars, gridVars, configVars, monthForDayVars, monthlyGridVars, versionTapVars, contentSizeVars>>
nonMonthForDayVars == <<landscapeVars, rowsVars, monthVars, gridVars, configVars, calendarVars, monthlyGridVars, versionTapVars, contentSizeVars>>
nonMonthlyGridVars == <<landscapeVars, rowsVars, monthVars, gridVars, configVars, calendarVars, monthForDayVars, versionTapVars, contentSizeVars>>
nonVersionTapVars == <<landscapeVars, rowsVars, monthVars, gridVars, configVars, calendarVars, monthForDayVars, monthlyGridVars, contentSizeVars>>
nonContentSizeVars == <<landscapeVars, rowsVars, monthVars, gridVars, configVars, calendarVars, monthForDayVars, monthlyGridVars, versionTapVars>>

Min(a, b) == IF a < b THEN a ELSE b

\* LAYOUT of constants.ts
padding == 10
weeklyGridGap == 2
weekLabelWidth == 42
monthLabelHeight == 16
dayLabelHeight == 20
MONTH_DAYS == 30

\* fractions n/d with d > 0, as <<n, d>>
RatLess(a, b) == a[1] * b[2] < b[1] * a[2]
\* Math.min(a, b), Math.max(a, b)
RatMin(a, b) == IF RatLess(b, a) THEN b ELSE a
RatMax(a, b) == IF RatLess(a, b) THEN b ELSE a
\* Math.floor(a)
RatFloor(a) == <<a[1] \div a[2], 1>>
\* a * 0.4
RatTimes04(a) == <<2 * a[1], 5 * a[2]>>
RatIsInteger(a) == a[1] % a[2] = 0

\* ------------------------------------------------------------------------
\* overlapsX (doubled coordinates: 2*left -/+ width)
\* ------------------------------------------------------------------------
\* mutant: items that exactly touch (gap included) count as overlapping
overlapsXInclusive(a, b) ==
    LET aLeft2  == 2 * a.left - a.width
        aRight2 == 2 * a.left + a.width
        bLeft2  == 2 * b.left - b.width
        bRight2 == 2 * b.left + b.width
    IN  /\ aRight2 + 2 * MILESTONE_GAP >= bLeft2
        /\ bRight2 + 2 * MILESTONE_GAP >= aLeft2

overlapsX(a, b) ==
    LET aLeft2  == 2 * a.left - a.width
        aRight2 == 2 * a.left + a.width
        bLeft2  == 2 * b.left - b.width
        bRight2 == 2 * b.left + b.width
    IN  /\ aRight2 + 2 * MILESTONE_GAP > bLeft2
        /\ bRight2 + 2 * MILESTONE_GAP > aLeft2

\* ------------------------------------------------------------------------
\* Array.prototype.sort: a stable sort, here by ascending key
\* ------------------------------------------------------------------------
RECURSIVE InsertByLeft(_, _)
InsertByLeft(x, s) ==
    IF s = <<>> THEN <<x>>
    ELSE IF x.left < Head(s).left THEN <<x>> \o s
    ELSE <<Head(s)>> \o InsertByLeft(x, Tail(s))

RECURSIVE SortByLeft(_)
SortByLeft(s) ==
    IF s = <<>> THEN <<>>
    ELSE InsertByLeft(s[Len(s)], SortByLeft(SubSeq(s, 1, Len(s) - 1)))

RECURSIVE InsertNum(_, _)
InsertNum(x, s) ==
    IF s = <<>> THEN <<x>>
    ELSE IF x < Head(s) THEN <<x>> \o s
    ELSE <<Head(s)>> \o InsertNum(x, Tail(s))

RECURSIVE SortNum(_)
SortNum(s) ==
    IF s = <<>> THEN <<>>
    ELSE InsertNum(s[Len(s)], SortNum(SubSeq(s, 1, Len(s) - 1)))

\* ------------------------------------------------------------------------
\* layoutLandscapeMilestonesCore: construction of layouts
\* ------------------------------------------------------------------------
\* mutant: the items are laid out in the order of the input, without the sort
InitialLayoutsUnsorted(unsorted) ==
    [i \in 1..Len(unsorted) |->
        [index      |-> unsorted[i].index,
         left       |-> unsorted[i].left,
         isColoured |-> unsorted[i].isColoured,
         width      |-> EXPANDED_WIDTH,
         top        |-> 0,
         collapsed  |-> FALSE]]

InitialLayouts(unsorted) ==
    LET byLeft == SortByLeft(unsorted)
    IN  [i \in 1..Len(byLeft) |->
            [index      |-> byLeft[i].index,
             left       |-> byLeft[i].left,
             isColoured |-> byLeft[i].isColoured,
             width      |-> EXPANDED_WIDTH,
             top        |-> 0,
             collapsed  |-> FALSE]]

\* ------------------------------------------------------------------------
\* runPass
\* ------------------------------------------------------------------------
\* the tops of the items before i that overlap item i, in array order
RECURSIVE OverlappingTops(_, _, _)
OverlappingTops(ls, i, j) ==
    IF j >= i THEN <<>>
    ELSE (IF overlapsX(ls[i], ls[j]) THEN <<ls[j].top>> ELSE <<>>)
         \o OverlappingTops(ls, i, j + 1)

\* mutant: a gap of exactly one row is not taken
RECURSIVE FirstGapWider(_, _)
FirstGapWider(occupied, k) ==
    IF k > Len(occupied) - 1 THEN 0
    ELSE IF occupied[k + 1] - (occupied[k] + ROW_HEIGHT) > ROW_HEIGHT THEN k
    ELSE FirstGapWider(occupied, k + 1)

\* first k (1-based) with a gap of a full row after occupied[k]; 0 if none
RECURSIVE FirstGap(_, _)
FirstGap(occupied, k) ==
    IF k > Len(occupied) - 1 THEN 0
    ELSE IF occupied[k + 1] - (occupied[k] + ROW_HEIGHT) >= ROW_HEIGHT THEN k
    ELSE FirstGap(occupied, k + 1)

\* mutant: the occupied positions are not sorted before the gap search
PlaceTopUnsorted(overlapping) ==
    IF Len(overlapping) = 0 THEN 0
    ELSE LET occupied == overlapping
             k == FirstGap(occupied, 1)
         IN  IF occupied[1] >= ROW_HEIGHT THEN 0
             ELSE IF k > 0 THEN occupied[k] + ROW_HEIGHT
             ELSE occupied[Len(occupied)] + ROW_HEIGHT

PlaceTop(overlapping) ==
    IF Len(overlapping) = 0 THEN 0
    ELSE LET occupied == SortNum(overlapping)
             k == FirstGap(occupied, 1)
         IN  IF occupied[1] >= ROW_HEIGHT THEN 0
             ELSE IF k > 0 THEN occupied[k] + ROW_HEIGHT
             ELSE occupied[Len(occupied)] + ROW_HEIGHT

RECURSIVE PlaceFrom(_, _)
PlaceFrom(ls, i) ==
    IF i > Len(ls) THEN ls
    ELSE PlaceFrom([ls EXCEPT ![i].top = PlaceTop(OverlappingTops(ls, i, 1))], i + 1)

\* mutant: every pass starts again from expanded items
runPassLayoutsReset(ls) ==
    PlaceFrom([i \in 1..Len(ls) |->
                  [ls[i] EXCEPT !.collapsed = FALSE, !.width = EXPANDED_WIDTH]], 1)

runPassLayouts(ls) == PlaceFrom(ls, 1)

\* mutant: maxTop is the bottom of the last item, not the largest bottom
RECURSIVE MaxTopFromLast(_, _, _)
MaxTopFromLast(ls, i, m) ==
    IF i > Len(ls) THEN m
    ELSE MaxTopFromLast(ls, i + 1, ls[i].top + ROW_HEIGHT)

RECURSIVE MaxTopFrom(_, _, _)
MaxTopFrom(ls, i, m) ==
    IF i > Len(ls) THEN m
    ELSE MaxTopFrom(ls, i + 1,
                    IF ls[i].top + ROW_HEIGHT > m THEN ls[i].top + ROW_HEIGHT ELSE m)

\* mutant: maxTop is the largest top, without the height of the row itself
runPassMaxTopNoRow(ls) ==
    IF Len(ls) = 0 THEN 0
    ELSE CHOOSE t \in {ls[i].top : i \in 1..Len(ls)} : \A i \in 1..Len(ls) : ls[i].top <= t

\* the value runPass returns for the layout it has just written
runPassMaxTop(ls) == MaxTopFrom(ls, 1, 0)

\* ------------------------------------------------------------------------
\* findCandidate: 0 stands for null, otherwise the array index of the item
\* ------------------------------------------------------------------------
\* the items of layouts, by array index
ItemIndices(ls) == [i \in 1..Len(ls) |-> i]

InSeq(x, s) == \E k \in 1..Len(s) : s[k] = x

\* candidates in insertion order of the Set: for ms of atTop, for other of expanded
RECURSIVE AddCandidates(_, _, _, _, _)
AddCandidates(ls, atTop, expanded, a, acc) ==
    IF a > Len(atTop) THEN acc
    ELSE LET RECURSIVE Inner(_, _)
             Inner(e, acc2) ==
                 IF e > Len(expanded) THEN acc2
                 ELSE Inner(e + 1,
                            IF /\ overlapsX(ls[atTop[a]], ls[expanded[e]])
                               /\ ~InSeq(expanded[e], acc2)
                            THEN Append(acc2, expanded[e]) ELSE acc2)
         IN  AddCandidates(ls, atTop, expanded, a + 1, Inner(1, acc))

\* mutant: the comparison is inverted, the rightmost of the list is kept
RECURSIVE findRightmostFrom(_, _, _, _)
findRightmostFrom(ls, list, k, best) ==
    IF k > Len(list) THEN best
    ELSE findRightmostFrom(ls, list, k + 1,
                           IF ls[list[k]].left > ls[best].left THEN list[k] ELSE best)

RECURSIVE findLeftmostFrom(_, _, _, _)
findLeftmostFrom(ls, list, k, best) ==
    IF k > Len(list) THEN best
    ELSE findLeftmostFrom(ls, list, k + 1,
                          IF ls[list[k]].left < ls[best].left THEN list[k] ELSE best)

findLeftmost(ls, list) == findLeftmostFrom(ls, list, 1, list[1])

Topmost(ls) == CHOOSE t \in {ls[i].top : i \in 1..Len(ls)} :
                   \A i \in 1..Len(ls) : ls[i].top <= t

Candidates(ls) ==
    LET expanded == SelectSeq(ItemIndices(ls), LAMBDA i : ~ls[i].collapsed)
        topmost  == Topmost(ls)
        atTop    == SelectSeq(ItemIndices(ls), LAMBDA i : ls[i].top = topmost)
    IN  IF Len(expanded) = 0 THEN <<>>
        ELSE AddCandidates(ls, atTop, expanded, 1, <<>>)

\* mutant: collapsed items remain candidates
findCandidateAny(ls) ==
    LET topmost == Topmost(ls)
        atTop   == SelectSeq(ItemIndices(ls), LAMBDA i : ls[i].top = topmost)
        all     == ItemIndices(ls)
        arr     == IF Len(ls) = 0 THEN <<>> ELSE AddCandidates(ls, atTop, all, 1, <<>>)
        nonColoured == SelectSeq(arr, LAMBDA i : ~ls[i].isColoured)
    IN  IF Len(arr) = 0 \/ \A i \in 1..Len(ls) : ls[i].collapsed THEN 0
        ELSE IF Len(nonColoured) > 0 THEN findLeftmost(ls, nonColoured)
        ELSE findLeftmost(ls, arr)

\* mutant: coloured candidates are never collapsed
findCandidateNonColouredOnly(ls) ==
    LET arr        == Candidates(ls)
        nonColoured == SelectSeq(arr, LAMBDA i : ~ls[i].isColoured)
    IN  IF Len(nonColoured) > 0 THEN findLeftmost(ls, nonColoured) ELSE 0

\* mutant: the priority is inverted, coloured candidates go first
findCandidateColouredFirst(ls) ==
    LET arr        == Candidates(ls)
        nonColoured == SelectSeq(arr, LAMBDA i : ~ls[i].isColoured)
        coloured    == SelectSeq(arr, LAMBDA i : ls[i].isColoured)
    IN  IF Len(arr) = 0 THEN 0
        ELSE IF Len(coloured) > 0 THEN findLeftmost(ls, coloured)
        ELSE findLeftmost(ls, nonColoured)

findCandidate(ls) ==
    LET arr        == Candidates(ls)
        nonColoured == SelectSeq(arr, LAMBDA i : ~ls[i].isColoured)
        coloured    == SelectSeq(arr, LAMBDA i : ls[i].isColoured)
    IN  IF Len(arr) = 0 THEN 0
        ELSE IF Len(nonColoured) > 0 THEN findLeftmost(ls, nonColoured)
        ELSE IF Len(coloured) > 0 THEN findLeftmost(ls, coloured)
        ELSE arr[1]

\* a collapse that widens the candidate instead of narrowing it
CollapseItemWidened(ls, c) ==
    [ls EXCEPT ![c].collapsed = TRUE, ![c].width = 2 * EXPANDED_WIDTH]

\* candidate.collapsed = true; candidate.width = collapsedWidth
CollapseItem(ls, c) ==
    [ls EXCEPT ![c].collapsed = TRUE, ![c].width = COLLAPSED_WIDTH]

\* ------------------------------------------------------------------------
\* layoutLandscapeMilestones (wrapper)
\* ------------------------------------------------------------------------
naturalWidth(m) ==
    m.textWidth + MILESTONE_PADDING + (IF m.hasEmoji THEN EMOJI_WIDTH ELSE 0)

inputLayouts(ms, cw) ==
    [i \in 1..Len(ms) |->
        [index      |-> ms[i].index,
         left       |-> (ms[i].position * cw) \div 100,
         width      |-> Min(naturalWidth(ms[i]), EXPANDED_WIDTH),
         isColoured |-> ms[i].color]]

\* mutant: only the expanded items are returned
WrapperResultExpandedOnly(ls) ==
    LET kept == SelectSeq(ls, LAMBDA l : ~l.collapsed)
    IN  [i \in 1..Len(kept) |->
            [index    |-> kept[i].index,
             left     |-> kept[i].left,
             width    |-> kept[i].width,
             topPx    |-> kept[i].top,
             expanded |-> TRUE]]

WrapperResult(ls) ==
    [i \in 1..Len(ls) |->
        [index    |-> ls[i].index,
         left     |-> ls[i].left,
         width    |-> ls[i].width,
         topPx    |-> ls[i].top,
         expanded |-> ~ls[i].collapsed]]

\* ------------------------------------------------------------------------
\* Inputs
\* ------------------------------------------------------------------------
\* items as computeGanttBars builds them: width EXPANDED_WIDTH, index = place in the argument
GanttInputs ==
    UNION {
        { [i \in 1..n |-> [index |-> i, left |-> f[i][1], width |-> EXPANDED_WIDTH,
                           isColoured |-> f[i][2]]] :
            f \in { g \in [1..n -> PositionsPx \X BOOLEAN] :
                      \/ \A i \in 1..n - 1 : g[i][1] <= g[i + 1][1]
                      \/ \A i \in 1..n - 1 : g[i][1] >= g[i + 1][1] } }
        : n \in 0..MaxItems }

\* ascending sequence of the elements of a finite set of numbers
RECURSIVE AscendingSeq(_)
AscendingSeq(S) ==
    IF S = {} THEN <<>>
    ELSE LET m == CHOOSE x \in S : \A y \in S : x <= y
         IN  <<m>> \o AscendingSeq(S \ {m})

\* the point milestones TimelineView passes on: one per annotated day, in day order
WrapperInputs ==
    UNION {
        { [i \in 1..Len(ps) |-> [index |-> ps[i], position |-> ps[i],
                                 textWidth |-> f[i][1][1], hasEmoji |-> f[i][1][2],
                                 color |-> f[i][2]]] :
            f \in [1..Len(ps) -> Labels \X BOOLEAN] }
        : ps \in { AscendingSeq(S) : S \in SUBSET PositionsPct } }

Init ==
    /\ pc = "idle"
    /\ caller = "none"
    /\ maxHeight = 0
    /\ unsortedMilestones = <<>>
    /\ milestones = <<>>
    /\ containerWidth = 0
    /\ layouts = <<>>
    /\ iter = 0
    /\ ok = "none"
    /\ result = <<>>
    /\ passes = 0
    /\ rowsPc = "idle"
    /\ rowsContainerWidth = 0
    /\ sorted = <<>>
    /\ rowOccupancy = [r \in {} |-> <<>>]
    /\ rowsResult = <<>>
    /\ monthPc = "idle"
    /\ totalDays = 0
    /\ startDow = 0
    /\ monthSections = <<>>
    /\ gridPc = "idle"
    /\ gridView = "none"
    /\ windowSize = [width |-> 0, height |-> 0]
    /\ isLandscape = FALSE
    /\ mode = "weekly"
    /\ gridTotalDays = 1
    /\ startDayOfWeek = 0
    /\ grid = [availableWidth |-> 0, availableHeight |-> 0, numCols |-> 1, numRows |-> 1,
               cellSize |-> <<8, 1>>, labelSize |-> <<8, 1>>]
    /\ cfgPc = "idle"
    /\ configString = [parses |-> FALSE, value |-> [t |-> "undefined", v |-> 0]]
    /\ validation = [valid |-> FALSE, error |-> <<>>, issues |-> <<>>]
    /\ appStartDate = 0
    /\ appTotalDays = 0
    /\ appMilestones = <<>>
    /\ rangeMilestoneLookup = <<>>
    /\ ganttContainerWidth = 0
    /\ maxGanttLabelHeight = 0
    /\ ganttBars = <<>>
    /\ calView = "none"
    /\ calStartDay = 0
    /\ calTotalDays = 0
    /\ calCellSize = 8
    /\ calHeader = <<>>
    /\ calWeeks = <<>>
    /\ forDayIndex = 0
    /\ forTotalDays = 0
    /\ monthForDay = -1
    /\ monthlyWindowSize = [width |-> 0, height |-> 0]
    /\ monthlyIsLandscape = FALSE
    /\ monthlyGrid = [cellSize |-> <<8, 1>>, labelSize |-> <<8, 1>>, gap |-> 2]
    /\ versionTapCount = 0
    /\ versionTapTimer = 0
    /\ pendingTapTimers = {}
    /\ nextTimerId = 1
    /\ shownVersions = 0
    /\ tapCalls = 0
    /\ tapStreak = 0
    /\ activeEffect = 0
    /\ effectsRun = 0
    /\ timeoutId = <<>>
    /\ pendingPollTimers = {}
    /\ nextPollTimerId = 1
    /\ resizeListeners = {}
    /\ refAttached = FALSE
    /\ slowPolling = FALSE
    /\ sizeUpdates = 0
    /\ resizeEvents = 0
    /\ lateUpdates = 0

\* ------------------------------------------------------------------------
\* Actions
\* ------------------------------------------------------------------------
\* computeGanttBars calls the core with its label inputs
CallCore ==
    /\ pc = "idle"
    /\ caller' = "gantt"
    /\ maxHeight' \in HeightBudgets
    /\ unsortedMilestones' \in GanttInputs
    /\ pc' = "core"
    /\ UNCHANGED <<milestones, containerWidth, layouts, iter, ok, result, passes>>
    /\ UNCHANGED nonLandscapeVars

\* TimelineLandscape calls layoutLandscapeMilestones
CallWrapper ==
    /\ pc = "idle"
    /\ caller' = "wrapper"
    /\ maxHeight' \in HeightBudgets
    /\ milestones' \in WrapperInputs
    /\ containerWidth' \in ContainerWidths
    /\ pc' = "wrapper"
    /\ UNCHANGED <<unsortedMilestones, layouts, iter, ok, result, passes>>
    /\ UNCHANGED nonLandscapeVars

\* layoutLandscapeMilestones, guard clause
WrapperEarlyReturn ==
    /\ pc = "wrapper"
    /\ (Len(milestones) = 0 \/ containerWidth <= 0 \/ maxHeight <= 0)
    /\ result' = <<>>
    /\ pc' = "returned"
    /\ UNCHANGED <<caller, milestones, containerWidth, maxHeight, unsortedMilestones,
                   layouts, iter, ok, passes>>
    /\ UNCHANGED nonLandscapeVars

\* layoutLandscapeMilestones: builds inputLayouts and calls the core
WrapperCall ==
    /\ pc = "wrapper"
    /\ ~(Len(milestones) = 0 \/ containerWidth <= 0 \/ maxHeight <= 0)
    /\ unsortedMilestones' = inputLayouts(milestones, containerWidth)
    /\ pc' = "core"
    /\ UNCHANGED <<caller, milestones, containerWidth, maxHeight, layouts, iter, ok, result,
                   passes>>
    /\ UNCHANGED nonLandscapeVars

\* core entry: sort, map to layouts
CoreStart ==
    /\ pc = "core"
    /\ layouts' = InitialLayouts(unsortedMilestones)
    /\ iter' = 0
    /\ pc' = "pass"
    /\ UNCHANGED <<caller, milestones, containerWidth, maxHeight, unsortedMilestones, ok, result,
                   passes>>
    /\ UNCHANGED nonLandscapeVars

\* one loop iteration, first half: runPass and the fit test
RunPass ==
    /\ pc = "pass"
    /\ layouts' = runPassLayouts(layouts)
    /\ passes' = passes + 1
    /\ IF runPassMaxTop(layouts') <= maxHeight
       THEN /\ ok' = "true"
            /\ pc' = "coreDone"
       ELSE /\ ok' = ok
            /\ pc' = "collapse"
    /\ UNCHANGED <<caller, milestones, containerWidth, maxHeight, unsortedMilestones, iter, result>>
    /\ UNCHANGED nonLandscapeVars

\* one loop iteration, second half: findCandidate, collapse, loop test
CollapseStep ==
    /\ pc = "collapse"
    /\ LET candidate == findCandidate(layouts)
       IN  IF candidate = 0
           THEN /\ ok' = "false"
                /\ pc' = "coreDone"
                /\ UNCHANGED <<layouts, iter>>
           ELSE /\ layouts' = CollapseItem(layouts, candidate)
                /\ iter' = iter + 1
                /\ IF iter + 1 < Len(layouts) + 2
                   THEN /\ pc' = "pass"
                        /\ ok' = ok
                   ELSE /\ pc' = "coreDone"
                        /\ ok' = "false"
    /\ UNCHANGED <<caller, milestones, containerWidth, maxHeight, unsortedMilestones, result,
                   passes>>
    /\ UNCHANGED nonLandscapeVars

\* layoutLandscapeMilestones: maps the core's layouts to its result
WrapperReturn ==
    /\ pc = "coreDone"
    /\ caller = "wrapper"
    /\ result' = WrapperResult(layouts)
    /\ pc' = "returned"
    /\ UNCHANGED <<caller, milestones, containerWidth, maxHeight, unsortedMilestones,
                   layouts, iter, ok, passes>>
    /\ UNCHANGED nonLandscapeVars

\* ------------------------------------------------------------------------
\* assignRows (nearest-lane variant)
\* ------------------------------------------------------------------------
maxSearch == 10

\* const width = textWidth + MILESTONE_PADDING + (hasEmoji ? EMOJI_WIDTH : 0)
withWidths(ms) ==
    [i \in 1..Len(ms) |->
        [index    |-> ms[i].index,
         position |-> ms[i].position,
         width    |-> ms[i].textWidth + MILESTONE_PADDING
                      + (IF ms[i].hasEmoji THEN EMOJI_WIDTH ELSE 0)]]

RECURSIVE InsertByPosition(_, _)
InsertByPosition(x, s) ==
    IF s = <<>> THEN <<x>>
    ELSE IF x.position < Head(s).position THEN <<x>> \o s
    ELSE <<Head(s)>> \o InsertByPosition(x, Tail(s))

RECURSIVE SortByPosition(_)
SortByPosition(s) ==
    IF s = <<>> THEN <<>>
    ELSE InsertByPosition(s[Len(s)], SortByPosition(SubSeq(s, 1, Len(s) - 1)))

\* centerPx, leftPx, rightPx of a milestone, doubled
centerPx2(m, cw) == 2 * ((m.position * cw) \div 100)
leftPx2(m, cw)   == centerPx2(m, cw) - m.width
rightPx2(m, cw)  == centerPx2(m, cw) + m.width

\* rowOccupancy.get(row) || []
Occupied(occ, row) == IF row \in DOMAIN occ THEN occ[row] ELSE <<>>

\* occupied.some(range => !(rightPx + GAP < range.left || leftPx - GAP > range.right))
hasConflict(occ, row, l2, r2) ==
    \E k \in 1..Len(Occupied(occ, row)) :
        ~(\/ r2 + 2 * MILESTONE_GAP < Occupied(occ, row)[k].left
          \/ l2 - 2 * MILESTONE_GAP > Occupied(occ, row)[k].right)

\* the search loop over distance, with assignedRow carried from one distance to the next
RECURSIVE SearchRow(_, _, _, _, _)
SearchRow(occ, l2, r2, distance, assignedRow) ==
    IF distance >= maxSearch THEN assignedRow
    ELSE LET rowsToTry == IF distance = 0 THEN <<0>> ELSE <<distance, -distance>>
             free      == SelectSeq(rowsToTry, LAMBDA r : ~hasConflict(occ, r, l2, r2))
             assigned  == IF Len(free) > 0 THEN free[1] ELSE assignedRow
         IN  IF ~hasConflict(occ, assigned, l2, r2) THEN assigned
             ELSE SearchRow(occ, l2, r2, distance + 1, assigned)

AssignedRow(occ, m, cw) == SearchRow(occ, leftPx2(m, cw), rightPx2(m, cw), 0, 0)

\* occupied.push({left, right}); rowOccupancy.set(assignedRow, occupied)
PushRange(occ, row, l2, r2) ==
    [r \in DOMAIN occ \cup {row} |->
        IF r = row THEN Append(Occupied(occ, row), [left |-> l2, right |-> r2])
        ELSE occ[r]]

\* the arguments: a run of MaxCluster or fewer milestones on consecutive days
\* with one label, and MaxFree or fewer milestones anywhere, in either order
ClusterOf(k, label) ==
    [j \in 1..k |-> [index |-> j - 1, position |-> j - 1,
                     textWidth |-> label[1], hasEmoji |-> label[2]]]

FreeMilestones ==
    UNION { { [j \in 1..n |-> [index |-> f[j][1], position |-> f[j][1],
                               textWidth |-> f[j][2][1], hasEmoji |-> f[j][2][2]]] :
                f \in [1..n -> RowsPositionsPct \X Labels] }
            : n \in 0..MaxFree }

RowsInputs ==
    UNION { { ClusterOf(k, label) \o fr, fr \o ClusterOf(k, label) } :
              k \in 0..MaxCluster, label \in Labels, fr \in FreeMilestones }

\* TimelineLandscape calls assignRows: widths, sort
CallAssignRows ==
    /\ rowsPc = "idle"
    /\ \E ms \in RowsInputs : sorted' = SortByPosition(withWidths(ms))
    /\ rowsContainerWidth' \in RowsContainerWidths
    /\ rowOccupancy' = [r \in {} |-> <<>>]
    /\ rowsResult' = <<>>
    /\ rowsPc' = "loop"
    /\ UNCHANGED nonRowsVars

\* one iteration of "for (const milestone of sorted)"
AssignNext ==
    /\ rowsPc = "loop"
    /\ Len(rowsResult) < Len(sorted)
    /\ LET milestone   == sorted[Len(rowsResult) + 1]
           assignedRow == AssignedRow(rowOccupancy, milestone, rowsContainerWidth)
       IN  /\ rowOccupancy' = PushRange(rowOccupancy, assignedRow,
                                        leftPx2(milestone, rowsContainerWidth),
                                        rightPx2(milestone, rowsContainerWidth))
           /\ rowsResult' = Append(rowsResult,
                                   [index |-> milestone.index, position |-> milestone.position,
                                    width |-> milestone.width, row |-> assignedRow])
    /\ UNCHANGED <<rowsContainerWidth, sorted, rowsPc>>
    /\ UNCHANGED nonRowsVars

\* return result
AssignReturn ==
    /\ rowsPc = "loop"
    /\ Len(rowsResult) = Len(sorted)
    /\ rowsPc' = "done"
    /\ UNCHANGED <<rowsContainerWidth, sorted, rowOccupancy, rowsResult>>
    /\ UNCHANGED nonRowsVars

NextRows ==
    \/ CallAssignRows
    \/ AssignNext
    \/ AssignReturn

SpecRows == Init /\ [][NextRows]_vars

Next ==
    \/ CallCore
    \/ CallWrapper
    \/ WrapperEarlyReturn
    \/ WrapperCall
    \/ CoreStart
    \/ RunPass
    \/ CollapseStep
    \/ WrapperReturn

Spec == Init /\ [][Next]_vars

\* label centres further apart than PositionsPx reaches, and the largest
\* number of such labels
PositionsSpread == PositionsPx \cup {160, 200}
MaxSpreadItems == 5

\* labels at different centres, from left to right
SpreadInputs ==
    UNION {
        { [i \in 1..Len(ps) |-> [index |-> i, left |-> ps[i], width |-> EXPANDED_WIDTH,
                                 isColoured |-> c[i]]] :
            c \in [1..Len(ps) -> BOOLEAN] }
        : ps \in { AscendingSeq(S) :
                     S \in {T \in SUBSET PositionsSpread : Cardinality(T) <= MaxSpreadItems} } }

\* computeGanttBars calls the core with labels spread over a wider container
CallCoreSpread ==
    /\ pc = "idle"
    /\ caller' = "gantt"
    /\ maxHeight' \in HeightBudgets
    /\ unsortedMilestones' \in SpreadInputs
    /\ pc' = "core"
    /\ UNCHANGED <<milestones, containerWidth, layouts, iter, ok, result, passes>>
    /\ UNCHANGED nonLandscapeVars

\* ------------------------------------------------------------------------
\* useVersionTap
\* ------------------------------------------------------------------------
VERSION_TAP_COUNT == 3

\* number of taps of a behaviour
MaxVersionTaps == 18

\* a handler that leaves the previous reset timer running
HandleVersionTapNoClear ==
    /\ tapCalls < MaxVersionTaps
    /\ tapCalls' = tapCalls + 1
    /\ IF versionTapCount + 1 >= VERSION_TAP_COUNT
       THEN /\ versionTapCount' = 0
            /\ shownVersions' = shownVersions + 1
            /\ tapStreak' = 0
            /\ pendingTapTimers' = pendingTapTimers
            /\ UNCHANGED <<versionTapTimer, nextTimerId>>
       ELSE /\ versionTapCount' = versionTapCount + 1
            /\ versionTapTimer' = nextTimerId
            /\ pendingTapTimers' = pendingTapTimers \cup {nextTimerId}
            /\ nextTimerId' = nextTimerId + 1
            /\ tapStreak' = tapStreak + 1
            /\ UNCHANGED shownVersions
    /\ UNCHANGED nonVersionTapVars

\* handleVersionTap: clear the timer of the ref, count the tap, then either
\* reset the count and call onShowVersion or set a new reset timer
HandleVersionTap ==
    /\ tapCalls < MaxVersionTaps
    /\ tapCalls' = tapCalls + 1
    /\ LET cleared == IF versionTapTimer # 0 THEN pendingTapTimers \ {versionTapTimer}
                      ELSE pendingTapTimers
       IN  IF versionTapCount + 1 >= VERSION_TAP_COUNT
           THEN /\ versionTapCount' = 0
                /\ shownVersions' = shownVersions + 1
                /\ tapStreak' = 0
                /\ pendingTapTimers' = cleared
                /\ UNCHANGED <<versionTapTimer, nextTimerId>>
           ELSE /\ versionTapCount' = versionTapCount + 1
                /\ versionTapTimer' = nextTimerId
                /\ pendingTapTimers' = cleared \cup {nextTimerId}
                /\ nextTimerId' = nextTimerId + 1
                /\ tapStreak' = tapStreak + 1
                /\ UNCHANGED shownVersions
    /\ UNCHANGED nonVersionTapVars

\* a reset timer expires after VERSION_TAP_TIMEOUT: versionTapCount.current = 0
TapTimerExpires ==
    /\ \E id \in pendingTapTimers :
          pendingTapTimers' = pendingTapTimers \ {id}
    /\ versionTapCount' = 0
    /\ tapStreak' = 0
    /\ UNCHANGED <<versionTapTimer, nextTimerId, shownVersions, tapCalls>>
    /\ UNCHANGED nonVersionTapVars

NextVersionTap == HandleVersionTap \/ TapTimerExpires
SpecVersionTap == Init /\ [][NextVersionTap]_vars

\* ------------------------------------------------------------------------
\* useContentSize (polling with window.setTimeout)
\* ------------------------------------------------------------------------
\* runs of the effect, timers and resize events of a behaviour
MaxEffects == 2
MaxPollTimers == 5
MaxResizes == 2

\* updateSize: setContentSize is called when contentRef.current is set
updateSizeCalls(n) == IF refAttached THEN n ELSE 0

\* const delay = elapsed < 3000 ? 50 : 500
pollDelay(slow) == IF slow THEN 500 ELSE 50

\* the effect runs: updateSize(), the first timer, the resize listeners
RunEffect ==
    /\ activeEffect = 0
    /\ effectsRun < MaxEffects
    /\ nextPollTimerId <= MaxPollTimers
    /\ effectsRun' = effectsRun + 1
    /\ activeEffect' = effectsRun + 1
    /\ refAttached' \in BOOLEAN
    /\ sizeUpdates' = sizeUpdates + (IF refAttached' THEN 1 ELSE 0)
    /\ slowPolling' = FALSE
    /\ timeoutId' = Append(timeoutId, nextPollTimerId)
    /\ pendingPollTimers' = pendingPollTimers
                              \cup {[id |-> nextPollTimerId, delay |-> 50,
                                     effect |-> effectsRun + 1]}
    /\ nextPollTimerId' = nextPollTimerId + 1
    /\ resizeListeners' = resizeListeners \cup {effectsRun + 1}
    /\ UNCHANGED <<resizeEvents, lateUpdates>>
    /\ UNCHANGED nonContentSizeVars

\* a scheduleUpdate that does not keep the id of the timer it sets
ScheduleUpdateForgetsId ==
    /\ nextPollTimerId <= MaxPollTimers
    /\ \E t \in pendingPollTimers :
          /\ slowPolling' \in (IF t.effect = activeEffect THEN {slowPolling, TRUE}
                                ELSE {slowPolling})
          /\ pendingPollTimers' = (pendingPollTimers \ {t})
                \cup {[id |-> nextPollTimerId,
                       delay |-> pollDelay(IF t.effect = activeEffect THEN slowPolling' ELSE TRUE),
                       effect |-> t.effect]}
          /\ timeoutId' = timeoutId
          /\ lateUpdates' = lateUpdates + (IF t.effect # activeEffect THEN 1 ELSE 0)
    /\ sizeUpdates' = sizeUpdates + updateSizeCalls(1)
    /\ nextPollTimerId' = nextPollTimerId + 1
    /\ UNCHANGED <<activeEffect, effectsRun, resizeListeners, refAttached, resizeEvents>>
    /\ UNCHANGED nonContentSizeVars

\* a timer expires and scheduleUpdate runs: updateSize(), then the next
\* timer, whose id goes to timeoutId of the run that set the timer
ScheduleUpdate ==
    /\ nextPollTimerId <= MaxPollTimers
    /\ \E t \in pendingPollTimers :
          /\ slowPolling' \in (IF t.effect = activeEffect THEN {slowPolling, TRUE}
                                ELSE {slowPolling})
          /\ pendingPollTimers' = (pendingPollTimers \ {t})
                \cup {[id |-> nextPollTimerId,
                       delay |-> pollDelay(IF t.effect = activeEffect THEN slowPolling' ELSE TRUE),
                       effect |-> t.effect]}
          /\ timeoutId' = [timeoutId EXCEPT ![t.effect] = nextPollTimerId]
          /\ lateUpdates' = lateUpdates + (IF t.effect # activeEffect THEN 1 ELSE 0)
    /\ sizeUpdates' = sizeUpdates + updateSizeCalls(1)
    /\ nextPollTimerId' = nextPollTimerId + 1
    /\ UNCHANGED <<activeEffect, effectsRun, resizeListeners, refAttached, resizeEvents>>
    /\ UNCHANGED nonContentSizeVars

\* a resize event of window or window.visualViewport: every registered
\* listener runs updateSize
ResizeEvent ==
    /\ resizeEvents < MaxResizes
    /\ resizeEvents' = resizeEvents + 1
    /\ sizeUpdates' = sizeUpdates + updateSizeCalls(Cardinality(resizeListeners))
    /\ lateUpdates' = lateUpdates + Cardinality(resizeListeners \ {activeEffect})
    /\ UNCHANGED <<activeEffect, effectsRun, timeoutId, pendingPollTimers, nextPollTimerId,
                   resizeListeners, refAttached, slowPolling>>
    /\ UNCHANGED nonContentSizeVars

\* the cleanup of the effect (unmount, or contentRef changed): clearTimeout
\* of timeoutId, removeEventListener of updateSize
CleanupEffect ==
    /\ activeEffect # 0
    /\ pendingPollTimers' =
          IF timeoutId[activeEffect] # 0
          THEN {t \in pendingPollTimers : t.id # timeoutId[activeEffect]}
          ELSE pendingPollTimers
    /\ resizeListeners' = resizeListeners \ {activeEffect}
    /\ activeEffect' = 0
    /\ refAttached' \in {refAttached, FALSE}
    /\ UNCHANGED <<effectsRun, timeoutId, nextPollTimerId, slowPolling, sizeUpdates,
                   resizeEvents, lateUpdates>>
    /\ UNCHANGED nonContentSizeVars

NextContentSize == RunEffect \/ ScheduleUpdate \/ ResizeEvent \/ CleanupEffect
SpecContentSize == Init /\ [][NextContentSize]_vars

\* layoutLandscapeMilestonesCore alone, called with spread labels
NextSpread == CallCoreSpread \/ CoreStart \/ RunPass \/ CollapseStep
SpecSpread == Init /\ [][NextSpread]_vars

\* layoutLandscapeMilestonesCore alone, called with its label inputs
NextCore ==
    \/ CallCore
    \/ CoreStart
    \/ RunPass
    \/ CollapseStep

SpecCore == Init /\ [][NextCore]_vars

TypeOK ==
    /\ pc \in {"idle", "wrapper", "core", "pass", "collapse", "coreDone", "returned"}
    /\ ok \in {"none", "true", "false"}
    /\ iter \in 0..(MaxItems + 2)

\* ------------------------------------------------------------------------
\* Pregnancy months (constants.ts) and the sections of MonthlyView
\* ------------------------------------------------------------------------
NUM_MONTHS == 9

\* largest days.length
MaxDays == 280

\* Math.round((month * totalDays) / NUM_MONTHS): the quotient is never a half
\* (9 is odd), so rounding is floor(x + 1/2) = floor((2*month*totalDays + 9) / 18)
getMonthStart(month, days) == (2 * month * days + NUM_MONTHS) \div (2 * NUM_MONTHS)

\* addDays(startDate, n).getDay(), for a start date of weekday dow0 (0 is Sunday)
getDay(dow0, n) == (dow0 + n) % 7

\* mutant: monthEndDay is the first day of the next month
MonthSectionInclusiveEnd(m, days, dow0) ==
    LET monthStartDay == getMonthStart(m, days)
        monthEndDay   == getMonthStart(m + 1, days)
        monthDayCount == monthEndDay - monthStartDay + 1
        monthStartDow == (getDay(dow0, monthStartDay) + 6) % 7
        numWeeks      == (monthStartDow + monthDayCount + 6) \div 7
    IN  [monthNum |-> m,
         weeks |-> [week \in 1..numWeeks |->
                       [dow \in 1..7 |->
                           LET dayInMonth == (week - 1) * 7 + (dow - 1) - monthStartDow
                               dayIndex   == monthStartDay + dayInMonth
                           IN  IF dayInMonth >= 0 /\ dayInMonth < monthDayCount
                                  /\ dayIndex < days
                               THEN dayIndex ELSE -1]]]

\* one iteration of "for (let m = 0; m < NUM_MONTHS; m++)": the section of
\* month m; a cell holds the index of its day, -1 stands for null
MonthSection(m, days, dow0) ==
    LET monthStartDay == getMonthStart(m, days)
        monthEndDay   == getMonthStart(m + 1, days) - 1
        monthDayCount == monthEndDay - monthStartDay + 1
        \* (addDays(startDate, monthStartDay).getDay() + 6) % 7
        monthStartDow == (getDay(dow0, monthStartDay) + 6) % 7
        \* Math.ceil((monthStartDow + monthDayCount) / 7)
        numWeeks      == (monthStartDow + monthDayCount + 6) \div 7
    IN  [monthNum |-> m,
         weeks |-> [week \in 1..numWeeks |->
                       [dow \in 1..7 |->
                           LET dayInMonth == (week - 1) * 7 + (dow - 1) - monthStartDow
                               dayIndex   == monthStartDay + dayInMonth
                           IN  IF dayInMonth >= 0 /\ dayInMonth < monthDayCount
                                  /\ dayIndex < days
                               THEN dayIndex ELSE -1]]]

\* MonthlyView is rendered: the memo starts
CallMonthlyView ==
    /\ monthPc = "idle"
    /\ totalDays' \in 0..MaxDays
    /\ startDow' \in 0..6
    /\ monthSections' = <<>>
    /\ monthPc' = "loop"
    /\ UNCHANGED nonMonthVars

\* sections.push({ monthNum: m, weeks, monthLabels })
PushSection ==
    /\ monthPc = "loop"
    /\ Len(monthSections) < NUM_MONTHS
    /\ monthSections' = Append(monthSections,
                               MonthSection(Len(monthSections), totalDays, startDow))
    /\ UNCHANGED <<totalDays, startDow, monthPc>>
    /\ UNCHANGED nonMonthVars

\* return sections
ReturnSections ==
    /\ monthPc = "loop"
    /\ Len(monthSections) = NUM_MONTHS
    /\ monthPc' = "done"
    /\ UNCHANGED <<totalDays, startDow, monthSections>>
    /\ UNCHANGED nonMonthVars

\* window sizes of the MonthlyView of the model
MonthlyWindowWidths == {320, 844, 1024}
MonthlyWindowHeights == {50, 390}

\* what JavaScript makes of n / d for integers n and d >= 0: a fraction, or
\* Infinity, -Infinity or NaN when d is 0
Infinity == <<1, 0>>
NegInfinity == <<-1, 0>>
NaN == <<0, 0>>
JsDivide(n, d) ==
    IF d > 0 THEN <<n, d>>
    ELSE IF n > 0 THEN Infinity ELSE IF n < 0 THEN NegInfinity ELSE NaN
\* Math.min, Math.max and Math.floor on such values
JsMin(a, b) == IF a = NaN \/ b = NaN THEN NaN ELSE RatMin(a, b)
JsMax(a, b) == IF a = NaN \/ b = NaN THEN NaN ELSE RatMax(a, b)
JsFloor(a) == IF a[2] = 0 THEN a ELSE RatFloor(a)

\* let totalWeekCols = 0; for (const section of monthSections) totalWeekCols += section.weeks.length
RECURSIVE totalWeekColsFrom(_, _)
totalWeekColsFrom(sections, k) ==
    IF k > Len(sections) THEN 0
    ELSE Len(sections[k].weeks) + totalWeekColsFrom(sections, k + 1)

\* locals of the MonthlyView memo and of its landscape render
dayLabelColWidth == 28
calLabelRowHeight == 12
sectionGap == 8
hPadding == 4
headerHeight == 16

\* a cellSizeFromWidth that leaves room for all nine gaps of the wrapper
MonthlyLandscapeSizeNineGaps(ws, sections) ==
    LET availableHeight    == ws.height - padding * 2 - calLabelRowHeight
        cellSizeFromHeight == <<availableHeight - weeklyGridGap * 6, 8>>
        totalWeekCols      == totalWeekColsFrom(sections, 1)
        availableWidth     == ws.width - hPadding * 2 - dayLabelColWidth - sectionGap * 9
        cellSizeFromWidth  == JsDivide(availableWidth - weeklyGridGap * (totalWeekCols - 9),
                                       totalWeekCols)
    IN  JsMin(cellSizeFromHeight, cellSizeFromWidth)

\* landscape branch of the memo: const size = Math.min(cellSizeFromHeight, cellSizeFromWidth)
MonthlyLandscapeSize(ws, sections) ==
    LET availableHeight    == ws.height - padding * 2 - calLabelRowHeight
        \* 7 grid rows + 1 bottom row for month number (same height as cell)
        cellSizeFromHeight == <<availableHeight - weeklyGridGap * 6, 8>>
        totalWeekCols      == totalWeekColsFrom(sections, 1)
        availableWidth     == ws.width - hPadding * 2 - dayLabelColWidth - sectionGap * 8
        cellSizeFromWidth  == JsDivide(availableWidth - weeklyGridGap * (totalWeekCols - 9),
                                       totalWeekCols)
    IN  JsMin(cellSizeFromHeight, cellSizeFromWidth)

\* portrait branch of the memo: const size = Math.min(maxCellWidth, maxCellHeight)
MonthlyPortraitSize(ws, sections) ==
    LET availableWidth  == ws.width - padding * 2 - weekLabelWidth * 2
        numCols         == 7
        totalMonthWeeks == totalWeekColsFrom(sections, 1)
        availableHeight == ws.height - padding * 2 - headerHeight
                           - sectionGap * (NUM_MONTHS - 1) - weeklyGridGap
        numRows         == totalMonthWeeks
        maxCellWidth    == <<availableWidth - weeklyGridGap * (numCols - 1), numCols>>
        maxCellHeight   == JsDivide(availableHeight - weeklyGridGap * (numRows - 1), numRows)
    IN  JsMin(maxCellWidth, maxCellHeight)

\* const cellSize = Math.max(Math.floor(size), 8);
\* return { cellSize, labelSize: Math.max(8, Math.min(11, cellSize * 0.4)), gap: weeklyGridGap }
MonthlyViewGrid(landscape, ws, sections) ==
    LET size     == IF landscape THEN MonthlyLandscapeSize(ws, sections)
                    ELSE MonthlyPortraitSize(ws, sections)
        cellSize == JsMax(JsFloor(size), <<8, 1>>)
    IN  [cellSize  |-> cellSize,
         labelSize |-> JsMax(<<8, 1>>, JsMin(<<11, 1>>, RatTimes04(cellSize))),
         gap       |-> weeklyGridGap]

\* the cellSize memo of MonthlyView runs on the sections of the first memo
MonthlyViewCellSize ==
    /\ monthPc = "done"
    /\ monthlyWindowSize' \in [width : MonthlyWindowWidths, height : MonthlyWindowHeights]
    /\ monthlyIsLandscape' \in BOOLEAN
    /\ monthlyGrid' = MonthlyViewGrid(monthlyIsLandscape', monthlyWindowSize', monthSections)
    /\ monthPc' = "sized"
    /\ UNCHANGED <<totalDays, startDow, monthSections>>
    /\ UNCHANGED <<landscapeVars, rowsVars, gridVars, configVars, calendarVars,
                   monthForDayVars, versionTapVars, contentSizeVars>>

NextMonths ==
    \/ CallMonthlyView
    \/ PushSection
    \/ ReturnSections
    \/ MonthlyViewCellSize

SpecMonths == Init /\ [][NextMonths]_vars

\* Math.min(Math.floor((dayIndex * NUM_MONTHS) / totalDays), NUM_MONTHS - 1)
getMonthForDay(dayIndex, days) ==
    Min((dayIndex * NUM_MONTHS) \div days, NUM_MONTHS - 1)

\* getMonthForDay is called with a day of a pregnancy of at least one day
\* (the day after the last one included)
CallGetMonthForDay ==
    /\ forTotalDays = 0
    /\ forTotalDays' \in 1..MaxDays
    /\ forDayIndex' \in 0..forTotalDays'
    /\ monthForDay' = getMonthForDay(forDayIndex', forTotalDays')
    /\ UNCHANGED nonMonthForDayVars

NextMonthForDay == CallGetMonthForDay
SpecMonthForDay == Init /\ [][NextMonthForDay]_vars

\* ------------------------------------------------------------------------
\* WeeklyView: the cellSize memo
\* ------------------------------------------------------------------------
\* window sizes, numbers of days and start weekdays of the model
WindowWidths == {0, 50, 320, 400, 844}
WindowHeights == {0, 50, 390, 800}
GridDays == {1, 30, 274}

\* Math.ceil(a / b) for a >= 0, b > 0
CeilDiv(a, b) == (a + b - 1) \div b

\* const totalWeeks = Math.ceil((startDayOfWeek + totalDays) / 7)
totalWeeks(sdow, days) == CeilDiv(sdow + days, 7)

\* WeeklyView.tsx, portrait monthly: maxWPM after the loop over the 30-day months
RECURSIVE maxWPMFrom(_, _, _, _)
maxWPMFrom(m, sdow, days, maxWPM) ==
    IF m >= CeilDiv(days, MONTH_DAYS) THEN maxWPM
    ELSE LET firstDay  == m * MONTH_DAYS
             lastDay   == Min((m + 1) * MONTH_DAYS - 1, days - 1)
             firstWeek == (sdow + firstDay) \div 7
             lastWeek  == (sdow + lastDay) \div 7
             n         == lastWeek - firstWeek + 1
         IN  maxWPMFrom(m + 1, sdow, days, IF n > maxWPM THEN n ELSE maxWPM)

\* part_001, portrait monthly: totalMonthWeeks after the loop over the 30-day months
RECURSIVE totalMonthWeeksFrom(_, _, _, _)
totalMonthWeeksFrom(m, sdow, days, total) ==
    IF m >= CeilDiv(days, MONTH_DAYS) THEN total
    ELSE LET monthStartDay == m * MONTH_DAYS
             monthEndDay   == Min((m + 1) * MONTH_DAYS - 1, days - 1)
             monthDayCount == monthEndDay - monthStartDay + 1
             \* (addDays(startDate, monthStartDay).getDay() + 6) % 7
             monthStartDow == (((sdow + monthStartDay) % 7) + 6) % 7
         IN  totalMonthWeeksFrom(m + 1, sdow, days,
                                 total + CeilDiv(monthStartDow + monthDayCount, 7))

\* the four locals of the memo in src/src/components/WeeklyView.tsx
WeeklyViewAvailable(ws, landscape, md, sdow, days) ==
    IF landscape
    THEN [availableWidth  |-> ws.width - padding * 2 - weekLabelWidth,
          availableHeight |-> ws.height - padding * 2 - monthLabelHeight,
          numCols |-> totalWeeks(sdow, days), numRows |-> 7]
    ELSE IF md = "monthly"
    THEN [availableWidth  |-> ws.width - padding * 2 - weekLabelWidth * 2,
          availableHeight |-> ws.height - padding * 2 - dayLabelHeight,
          numCols |-> 7, numRows |-> maxWPMFrom(0, sdow, days, 5)]
    ELSE [availableWidth  |-> ws.width - padding * 2 - weekLabelWidth * 2,
          availableHeight |-> ws.height - padding * 2 - dayLabelHeight,
          numCols |-> 7, numRows |-> totalWeeks(sdow, days)]

\* the four locals of the memo in src/unnamed/part_001
WeeklyViewAvailableSections(ws, landscape, md, sdow, days) ==
    IF landscape
    THEN [availableWidth  |-> ws.width - padding * 2 - weekLabelWidth,
          availableHeight |-> ws.height - padding * 2 - monthLabelHeight,
          numCols |-> totalWeeks(sdow, days), numRows |-> 7]
    ELSE IF md = "monthly"
    THEN [availableWidth  |-> ws.width - padding * 2 - weekLabelWidth * 2,
          availableHeight |-> ws.height - padding * 2 - 16
                              - 8 * (CeilDiv(days, MONTH_DAYS) - 1) - weeklyGridGap,
          numCols |-> 7, numRows |-> totalMonthWeeksFrom(0, sdow, days, 0)]
    ELSE [availableWidth  |-> ws.width - padding * 2 - weekLabelWidth * 2,
          availableHeight |-> ws.height - padding * 2 - dayLabelHeight,
          numCols |-> 7, numRows |-> totalWeeks(sdow, days)]

\* const size = Math.min(maxCellWidth, maxCellHeight)
gridSize(av) ==
    LET maxCellWidth  == <<av.availableWidth - weeklyGridGap * (av.numCols - 1), av.numCols>>
        maxCellHeight == <<av.availableHeight - weeklyGridGap * (av.numRows - 1), av.numRows>>
    IN  RatMin(maxCellWidth, maxCellHeight)

\* src/src/components/WeeklyView.tsx: { cellSize: Math.max(size, 8), labelSize: ... size * 0.4 }
WeeklyViewGrid(av) ==
    [availableWidth |-> av.availableWidth, availableHeight |-> av.availableHeight,
     numCols |-> av.numCols, numRows |-> av.numRows,
     cellSize  |-> RatMax(gridSize(av), <<8, 1>>),
     labelSize |-> RatMax(<<8, 1>>, RatMin(<<11, 1>>, RatTimes04(gridSize(av))))]

\* src/unnamed/part_001: const cellSize = Math.max(Math.floor(size), 8); labelSize ... cellSize * 0.4
WeeklyViewGridFloored(av) ==
    LET cellSize == RatMax(RatFloor(gridSize(av)), <<8, 1>>)
    IN  [availableWidth |-> av.availableWidth, availableHeight |-> av.availableHeight,
         numCols |-> av.numCols, numRows |-> av.numRows,
         cellSize  |-> cellSize,
         labelSize |-> RatMax(<<8, 1>>, RatMin(<<11, 1>>, RatTimes04(cellSize)))]

\* WeeklyView of src/src/components/WeeklyView.tsx is rendered
RenderWeeklyView ==
    /\ gridPc = "idle"
    /\ gridView' = "WeeklyView.tsx"
    /\ windowSize' \in [width : WindowWidths, height : WindowHeights]
    /\ isLandscape' \in BOOLEAN
    /\ mode' \in {"weekly", "monthly"}
    /\ gridTotalDays' \in GridDays
    /\ startDayOfWeek' \in 0..6
    /\ grid' = WeeklyViewGrid(WeeklyViewAvailable(windowSize', isLandscape', mode',
                                                  startDayOfWeek', gridTotalDays'))
    /\ gridPc' = "rendered"
    /\ UNCHANGED nonGridVars

\* WeeklyView of src/unnamed/part_001 is rendered
RenderWeeklyViewSections ==
    /\ gridPc = "idle"
    /\ gridView' = "part_001"
    /\ windowSize' \in [width : WindowWidths, height : WindowHeights]
    /\ isLandscape' \in BOOLEAN
    /\ mode' \in {"weekly", "monthly"}
    /\ gridTotalDays' \in GridDays
    /\ startDayOfWeek' \in 0..6
    /\ grid' = WeeklyViewGridFloored(
                   WeeklyViewAvailableSections(windowSize', isLandscape', mode',
                                               startDayOfWeek', gridTotalDays'))
    /\ gridPc' = "rendered"
    /\ UNCHANGED nonGridVars

NextGrid ==
    \/ RenderWeeklyView
    \/ RenderWeeklyViewSections

SpecGrid == Init /\ [][NextGrid]_vars

\* ------------------------------------------------------------------------
\* The configuration validator (src/worker/src/services/validator.ts)
\* ------------------------------------------------------------------------
\* JSON values: a type tag and a content.  The text of a string is the
\* sequence of its characters; an object is a function from its keys.
JUndefined == [t |-> "undefined", v |-> 0]
JNull      == [t |-> "null", v |-> 0]
JNum(n)    == [t |-> "number", v |-> n]
JStr(s)    == [t |-> "string", v |-> s]
JArr(a)    == [t |-> "array", v |-> a]
JObj(f)    == [t |-> "object", v |-> f]

\* obj.key, undefined when the key is absent
Get(obj, key) == IF key \in DOMAIN obj.v THEN obj.v[key] ELSE JUndefined

Digits == {"0", "1", "2", "3", "4", "5", "6", "7", "8", "9"}

\* /^\d{4}-\d{2}-\d{2}$/
MatchesIsoDate(s) ==
    /\ Len(s) = 10
    /\ \A i \in {1, 2, 3, 4, 6, 7, 9, 10} : s[i] \in Digits
    /\ s[5] = "-"
    /\ s[8] = "-"

Issue(path, message) == [path |-> path, message |-> message]

\* the issue of a value that is not of the expected type
TypeIssue(x, path, expected) ==
    IF x.t = "undefined" THEN Issue(path, <<"Required">>)
    ELSE Issue(path, <<"Expected ", expected, ", received ", x.t>>)

\* mutant: the format of the text is not checked
isoDateSchemaAnyText(x, path) ==
    IF x.t # "string" THEN <<TypeIssue(x, path, "string")>>
    ELSE <<>>

\* z.string().regex(/^\d{4}-\d{2}-\d{2}$/, "Expected YYYY-MM-DD format")
isoDateSchema(x, path) ==
    IF x.t # "string" THEN <<TypeIssue(x, path, "string")>>
    ELSE IF ~MatchesIsoDate(x.v) THEN <<Issue(path, <<"Expected YYYY-MM-DD format">>)>>
    ELSE <<>>

\* z.string().min(1, message)
nonEmptyString(x, path, message) ==
    IF x.t # "string" THEN <<TypeIssue(x, path, "string")>>
    ELSE IF Len(x.v) < 1 THEN <<Issue(path, <<message>>)>>
    ELSE <<>>

\* z.string()
anyString(x, path) ==
    IF x.t # "string" THEN <<TypeIssue(x, path, "string")>> ELSE <<>>

\* schema.optional(): undefined is accepted, issues is what the schema reports otherwise
optional(x, issues) == IF x.t = "undefined" THEN <<>> ELSE issues

\* z.object({ date, endDate, label, emoji, color, description }): the issues
\* of the fields in the order of the shape; unknown keys are dropped
milestoneSchema(x, path) ==
    IF x.t # "object" THEN <<TypeIssue(x, path, "object")>>
    ELSE isoDateSchema(Get(x, "date"), Append(path, "date"))
         \o optional(Get(x, "endDate"),
                     isoDateSchema(Get(x, "endDate"), Append(path, "endDate")))
         \o nonEmptyString(Get(x, "label"), Append(path, "label"), "Label is required")
         \o nonEmptyString(Get(x, "emoji"), Append(path, "emoji"), "Emoji is required")
         \o optional(Get(x, "color"), anyString(Get(x, "color"), Append(path, "color")))
         \o optional(Get(x, "description"),
                     anyString(Get(x, "description"), Append(path, "description")))

\* z.array(milestoneSchema): the issues of the elements, in order; the path
\* of element i is the zero-based index i
RECURSIVE arrayIssues(_, _, _)
arrayIssues(a, i, path) ==
    IF i > Len(a) THEN <<>>
    ELSE milestoneSchema(a[i], Append(path, i - 1)) \o arrayIssues(a, i + 1, path)

milestonesSchema(x, path) ==
    IF x.t # "array" THEN <<TypeIssue(x, path, "array")>>
    ELSE arrayIssues(x.v, 1, path)

\* configSchema.safeParse(parsed): result.error.issues, empty on success
configSchema(x) ==
    IF x.t # "object" THEN <<TypeIssue(x, <<>>, "object")>>
    ELSE isoDateSchema(Get(x, "startDate"), <<"startDate">>)
         \o isoDateSchema(Get(x, "dueDate"), <<"dueDate">>)
         \o nonEmptyString(Get(x, "todayEmoji"), <<"todayEmoji">>, "todayEmoji is required")
         \o milestonesSchema(Get(x, "milestones"), <<"milestones">>)

\* the text of a path segment: a key as it is, an array index (the segment
\* after "milestones") in decimal digits
segmentText(path, k) ==
    IF k = 2 /\ path[1] = "milestones" THEN ToString(path[2]) ELSE path[k]

\* issue.path.join("."): the segments from k on with "." between them; a text
\* is the sequence of its parts
RECURSIVE joinPathFrom(_, _)
joinPathFrom(path, k) ==
    IF k > Len(path) THEN <<>>
    ELSE IF k = Len(path) THEN <<segmentText(path, k)>>
    ELSE <<segmentText(path, k), ".">> \o joinPathFrom(path, k + 1)

joinPath(path) == joinPathFrom(path, 1)

\* path.startsWith("milestones."): the keys of the schema's paths hold no
\* ".", so the joined text starts so exactly when a segment follows "milestones"
startsWithMilestones(path) == Len(path) >= 2 /\ path[1] = "milestones"

\* path.match(/^milestones\.(\d+)\.(.+)$/): an index segment and at least one
\* more segment; the segment after "milestones" is always an array index
matchMilestonePath(path) == startsWithMilestones(path) /\ Len(path) >= 3

\* the text built from the first issue: `Milestone ${Number(index) + 1} ${field}: ${message}`
\* or `${path}: ${message}`, or the message alone for an empty path
formatIssue(issue) ==
    LET path == issue.path
    IN  IF startsWithMilestones(path) /\ matchMilestonePath(path)
        THEN <<"Milestone ", ToString(path[2] + 1), " ">> \o joinPathFrom(path, 3)
             \o <<": ">> \o issue.message
        ELSE IF Len(path) > 0 THEN joinPath(path) \o <<": ">> \o issue.message
        ELSE issue.message

\* mutant: only the dates of the document are validated
validateConfigDatesOnly(str) ==
    IF ~str.parses
    THEN [valid |-> FALSE, error |-> <<"Invalid JSON syntax">>, issues |-> <<>>]
    ELSE LET issues == SelectSeq(configSchema(str.value),
                                 LAMBDA i : i.message = <<"Expected YYYY-MM-DD format">>)
         IN  IF Len(issues) > 0
             THEN [valid |-> FALSE, error |-> formatIssue(issues[1]), issues |-> issues]
             ELSE [valid |-> TRUE, error |-> <<>>, issues |-> <<>>]

\* validateConfig(configString); JSON.parse throws exactly on a text that
\* does not parse; error <<>> stands for an absent error
validateConfig(str) ==
    IF ~str.parses
    THEN [valid |-> FALSE, error |-> <<"Invalid JSON syntax">>, issues |-> <<>>]
    ELSE LET issues == configSchema(str.value)
         IN  IF Len(issues) > 0
             THEN [valid |-> FALSE, error |-> formatIssue(issues[1]), issues |-> issues]
             ELSE [valid |-> TRUE, error |-> <<>>, issues |-> <<>>]

\* ------------------------------------------------------------------------
\* Configuration documents of the model
\* ------------------------------------------------------------------------
\* largest number of entries of the milestones array
MaxMilestones == 3

Text_20251120 == <<"2", "0", "2", "5", "-", "1", "1", "-", "2", "0">>
Text_20260820 == <<"2", "0", "2", "6", "-", "0", "8", "-", "2", "0">>
Text_20251225 == <<"2", "0", "2", "5", "-", "1", "2", "-", "2", "5">>
Text_20260110 == <<"2", "0", "2", "6", "-", "0", "1", "-", "1", "0">>
Text_20260120 == <<"2", "0", "2", "6", "-", "0", "1", "-", "2", "0">>
Text_20260301 == <<"2", "0", "2", "6", "-", "0", "3", "-", "0", "1">>
Text_20260305 == <<"2", "0", "2", "6", "-", "0", "3", "-", "0", "5">>
Text_20260210 == <<"2", "0", "2", "6", "-", "0", "2", "-", "1", "0">>
Text_20260201 == <<"2", "0", "2", "6", "-", "0", "2", "-", "0", "1">>
Text_20260115 == <<"2", "0", "2", "6", "-", "0", "1", "-", "1", "5">>
Text_20260125 == <<"2", "0", "2", "6", "-", "0", "1", "-", "2", "5">>
Text_20260122 == <<"2", "0", "2", "6", "-", "0", "1", "-", "2", "2">>
Text_20260130 == <<"2", "0", "2", "6", "-", "0", "1", "-", "3", "0">>
Text_UsDate   == <<"1", "1", "/", "2", "0", "/", "2", "0", "2", "5">>
Text_Jan5     == <<"J", "a", "n", " ", "5", " ", "2", "0", "2", "6">>
Text_Xmas     == <<"X", "m", "a", "s">>
Text_Trip     == <<"T", "r", "i", "p">>
Text_Leave    == <<"L", "e", "a", "v", "e">>
Text_Visit    == <<"V", "i", "s", "i", "t">>
Text_Rest     == <<"R", "e", "s", "t">>
Text_Emoji    == <<"*">>
Text_Blue     == <<"b", "l", "u", "e">>

\* an object with the given keys, without those whose value is undefined
ObjectOf(f) == JObj([k \in {key \in DOMAIN f : f[key].t # "undefined"} |-> f[k]])

MilestoneEntry(date, endDate, label, emoji, color) ==
    ObjectOf([date |-> date, endDate |-> endDate, label |-> label, emoji |-> emoji,
              color |-> color])

\* entries of the milestones array: a point, two ranges with one label, a
\* range that ends before it starts, entries the schema rejects, a range that
\* overlaps the first one and a range that starts two days after the first
\* one ends
MilestoneEntries ==
    << MilestoneEntry(JStr(Text_20251225), JUndefined, JStr(Text_Xmas), JStr(Text_Emoji),
                      JUndefined),
       MilestoneEntry(JStr(Text_20260110), JStr(Text_20260120), JStr(Text_Trip),
                      JStr(Text_Emoji), JStr(Text_Blue)),
       MilestoneEntry(JStr(Text_20260301), JStr(Text_20260305), JStr(Text_Trip),
                      JStr(Text_Emoji), JUndefined),
       MilestoneEntry(JStr(Text_20260210), JStr(Text_20260201), JStr(Text_Leave),
                      JStr(Text_Emoji), JUndefined),
       JNull,
       MilestoneEntry(JUndefined, JUndefined, JStr(Text_Xmas), JStr(Text_Emoji), JUndefined),
       MilestoneEntry(JStr(Text_20260110), JStr(Text_Jan5), JStr(Text_Leave),
                      JStr(Text_Emoji), JUndefined),
       MilestoneEntry(JStr(Text_20251225), JUndefined, JStr(<<>>), JUndefined, JUndefined),
       MilestoneEntry(JStr(Text_20251225), JUndefined, JStr(Text_Xmas), JStr(Text_Emoji),
                      JNum(5)),
       MilestoneEntry(JStr(Text_20260115), JStr(Text_20260125), JStr(Text_Visit),
                      JStr(Text_Emoji), JUndefined),
       MilestoneEntry(JStr(Text_20260122), JStr(Text_20260130), JStr(Text_Rest),
                      JStr(Text_Emoji), JUndefined) >>

StartDateValues == <<JStr(Text_20251120), JStr(Text_UsDate)>>
DueDateValues == <<JStr(Text_20260820), JUndefined>>
TodayEmojiValues == <<JStr(Text_Emoji), JStr(<<>>)>>

\* the values of the key milestones: the arrays of MaxMilestones or fewer
\* different entries, no key, and a value that is no array
MilestonesChoices ==
    UNION {{c \in [1..n -> 1..Len(MilestoneEntries)] :
               \A i, j \in 1..n : i # j => c[i] # c[j]} : n \in 0..MaxMilestones}
        \cup {<<-1>>, <<-2>>}

MilestonesValue(choice) ==
    IF choice = <<-1>> THEN JUndefined
    ELSE IF choice = <<-2>> THEN JNum(7)
    ELSE JArr([i \in 1..Len(choice) |-> MilestoneEntries[choice[i]]])

ConfigDocument(sd, dd, te, choice) ==
    ObjectOf([startDate |-> StartDateValues[sd], dueDate |-> DueDateValues[dd],
              todayEmoji |-> TodayEmojiValues[te], milestones |-> MilestonesValue(choice)])

\* the documents of the model: any top-level values with one milestone entry
\* or none, the well-formed top-level values with more entries
DocumentChoices ==
    {c \in (1..Len(StartDateValues)) \X (1..Len(DueDateValues))
            \X (1..Len(TodayEmojiValues)) \X MilestonesChoices :
        Len(c[4]) <= 1 \/ (c[1] = 1 /\ c[2] = 1 /\ c[3] = 1)}

\* validateConfig is called with a text
CallValidateConfig ==
    /\ cfgPc = "idle"
    /\ \/ configString' = [parses |-> FALSE, value |-> JUndefined]
       \/ configString' \in {[parses |-> TRUE, value |-> JNull],
                             [parses |-> TRUE, value |-> JNum(7)]}
       \/ \E c \in DocumentChoices :
              configString' = [parses |-> TRUE,
                               value |-> ConfigDocument(c[1], c[2], c[3], c[4])]
    /\ cfgPc' = "called"
    /\ UNCHANGED <<validation, appStartDate, appTotalDays, appMilestones,
                   rangeMilestoneLookup, ganttContainerWidth, maxGanttLabelHeight, ganttBars>>
    /\ UNCHANGED nonConfigVars

\* validateConfig runs and returns
ReturnValidateConfig ==
    /\ cfgPc = "called"
    /\ validation' = validateConfig(configString)
    /\ cfgPc' = "validated"
    /\ UNCHANGED <<configString, appStartDate, appTotalDays, appMilestones,
                   rangeMilestoneLookup, ganttContainerWidth, maxGanttLabelHeight, ganttBars>>
    /\ UNCHANGED nonConfigVars

\* ------------------------------------------------------------------------
\* From an accepted configuration to the Gantt bars
\* ------------------------------------------------------------------------
\* the number a text of digits denotes
DigitValue(c) == CHOOSE n \in 0..9 : <<"0", "1", "2", "3", "4", "5", "6", "7", "8", "9">>[n + 1] = c

RECURSIVE NumberOf(_)
NumberOf(s) == IF Len(s) = 0 THEN 0
               ELSE 10 * NumberOf(SubSeq(s, 1, Len(s) - 1)) + DigitValue(s[Len(s)])

\* the day a YYYY-MM-DD text names, in days since 1970-01-01 (proleptic
\* Gregorian calendar)
DayOfDate(s) ==
    LET year  == NumberOf(SubSeq(s, 1, 4))
        month == NumberOf(SubSeq(s, 6, 7))
        day   == NumberOf(SubSeq(s, 9, 10))
        y     == IF month <= 2 THEN year - 1 ELSE year
        era   == y \div 400
        yoe   == y - era * 400
        mp    == IF month > 2 THEN month - 3 ELSE month + 9
        doy   == (153 * mp + 2) \div 5 + day - 1
        doe   == yoe * 365 + yoe \div 4 - yoe \div 100 + doy
    IN  era * 146097 + doe - 719468

\* the Milestone objects of a configuration: the dates as days, the texts kept
\* (0 stands for an absent endDate, <<>> for an absent color)
MilestonesOf(doc) ==
    LET ms == Get(doc, "milestones").v
    IN  [i \in 1..Len(ms) |->
            [date    |-> DayOfDate(Get(ms[i], "date").v),
             hasEnd  |-> Get(ms[i], "endDate").t # "undefined",
             endDate |-> IF Get(ms[i], "endDate").t # "undefined"
                         THEN DayOfDate(Get(ms[i], "endDate").v) ELSE 0,
             label   |-> Get(ms[i], "label").v,
             emoji   |-> Get(ms[i], "emoji").v,
             color   |-> IF Get(ms[i], "color").t # "undefined"
                         THEN Get(ms[i], "color").v ELSE <<>>]]

\* Math.ceil((end.getTime() - start.getTime()) / msPerDay), both at midnight
getDaysBetween(start, end) == end - start

\* lookup[m.label] = {...}: a new key is added last, a key already present
\* keeps its place and gets the new value (keys in insertion order, as
\* Object.entries lists them)
SetEntry(lookup, entry) ==
    IF \E k \in 1..Len(lookup) : lookup[k].label = entry.label
    THEN [k \in 1..Len(lookup) |->
             IF lookup[k].label = entry.label THEN entry ELSE lookup[k]]
    ELSE Append(lookup, entry)

RECURSIVE buildRangeMilestoneLookup(_, _)
buildRangeMilestoneLookup(ms, start) ==
    IF Len(ms) = 0 THEN <<>>
    ELSE LET m    == ms[Len(ms)]
             rest == buildRangeMilestoneLookup(SubSeq(ms, 1, Len(ms) - 1), start)
         IN  IF m.hasEnd
             THEN SetEntry(rest, [label      |-> m.label,
                                  startIndex |-> getDaysBetween(start, m.date),
                                  endIndex   |-> getDaysBetween(start, m.endDate),
                                  color      |-> m.color,
                                  emoji      |-> m.emoji])
             ELSE rest

\* container widths and label height budgets of the Gantt path; the widths
\* are multiples of twice the number of days, so that the centre of every
\* bar is a whole number of pixels
GanttContainerWidths == {546, 1092}
GanttLabelHeights == {50, 100}

\* computeGanttBars, first loop: a bar per entry of the lookup; positions
\* are percentages, kept as fractions <<numerator, denominator>>
GanttBarsOf(lookup, days) ==
    [k \in 1..Len(lookup) |->
        [label         |-> lookup[k].label,
         startPosition |-> <<lookup[k].startIndex * 100, days>>,
         endPosition   |-> <<lookup[k].endIndex * 100, days>>,
         width         |-> <<(lookup[k].endIndex - lookup[k].startIndex) * 100, days>>,
         color         |-> lookup[k].color,
         emoji         |-> lookup[k].emoji,
         \* measureTextWidth without a canvas context: text.length * 7
         labelWidth    |-> Len(lookup[k].label) * 7 + MILESTONE_PADDING + EMOJI_WIDTH,
         startIndex    |-> lookup[k].startIndex,
         endIndex      |-> lookup[k].endIndex]]

\* bars.sort((a, b) => a.startPosition - b.startPosition), stable
RECURSIVE InsertByStart(_, _)
InsertByStart(x, s) ==
    IF s = <<>> THEN <<x>>
    ELSE IF RatLess(x.startPosition, Head(s).startPosition) THEN <<x>> \o s
    ELSE <<Head(s)>> \o InsertByStart(x, Tail(s))

RECURSIVE SortByStart(_)
SortByStart(s) ==
    IF s = <<>> THEN <<>>
    ELSE InsertByStart(s[Len(s)], SortByStart(SubSeq(s, 1, Len(s) - 1)))

\* greatest common divisor of two natural numbers
RECURSIVE Gcd(_, _)
Gcd(a, b) == IF b = 0 THEN a ELSE Gcd(b, a % b)

\* the same fraction in lowest terms
Reduce(a) ==
    LET n == IF a[1] < 0 THEN -a[1] ELSE a[1]
        g == Gcd(n, a[2])
    IN  <<a[1] \div g, a[2] \div g>>

\* (position / 100) * containerWidth, as a fraction
BarPx(position, cw) == Reduce(<<position[1] * cw, position[2] * 100>>)

RatPlus(a, n) == <<a[1] + n * a[2], a[2]>>

\* mutant: a bar exactly 4px away is no conflict
barHasConflictBelow4(occupied, barLeftPx, barRightPx) ==
    \E k \in 1..Len(occupied) :
        ~(\/ ~RatLess(occupied[k].left, RatPlus(barRightPx, 4))
          \/ ~RatLess(RatPlus(barLeftPx, -4), occupied[k].right))

\* occupied.some(range => !(barRightPx + 4 < range.left || barLeftPx - 4 > range.right))
barHasConflict(occupied, barLeftPx, barRightPx) ==
    \E k \in 1..Len(occupied) :
        ~(\/ RatLess(RatPlus(barRightPx, 4), occupied[k].left)
          \/ RatLess(occupied[k].right, RatPlus(barLeftPx, -4)))

\* for (let row = 0; row < barRowOccupancy.length + 1; row++): the first row
\* without a conflict (rows are counted from 0, barRowOccupancy[row + 1] in the model)
RECURSIVE assignedBarRowFrom(_, _, _, _)
assignedBarRowFrom(occ, row, barLeftPx, barRightPx) ==
    IF row >= Len(occ) + 1 THEN 0
    ELSE IF ~barHasConflict(IF row + 1 <= Len(occ) THEN occ[row + 1] ELSE <<>>,
                            barLeftPx, barRightPx)
    THEN row
    ELSE assignedBarRowFrom(occ, row + 1, barLeftPx, barRightPx)

\* for (const bar of bars): barsWithRows, with barRowOccupancy carried along
RECURSIVE barsWithRowsFrom(_, _, _, _)
barsWithRowsFrom(bars, i, occ, cw) ==
    IF i > Len(bars) THEN <<>>
    ELSE LET barLeftPx  == BarPx(bars[i].startPosition, cw)
             barRightPx == BarPx(bars[i].endPosition, cw)
             row        == assignedBarRowFrom(occ, 0, barLeftPx, barRightPx)
             range      == [left |-> barLeftPx, right |-> barRightPx]
             occ2       == IF row + 1 <= Len(occ)
                           THEN [occ EXCEPT ![row + 1] = Append(@, range)]
                           ELSE Append(occ, <<range>>)
         IN  <<[bar |-> bars[i], barRow |-> row]>> \o barsWithRowsFrom(bars, i + 1, occ2, cw)

\* labelInputs: centerPx = ((startPosition + endPosition) / 2 / 100) * containerWidth
labelInputs(withRows, days, cw) ==
    [i \in 1..Len(withRows) |->
        [index      |-> i,
         left       |-> ((withRows[i].bar.startIndex + withRows[i].bar.endIndex) * cw)
                        \div (2 * days),
         width      |-> EXPANDED_WIDTH,
         isColoured |-> withRows[i].bar.color # <<>>]]

\* layoutLandscapeMilestonesCore as a function: the layouts it returns
RECURSIVE coreLayoutsFrom(_, _, _)
coreLayoutsFrom(ls, budget, it) ==
    LET placed    == runPassLayouts(ls)
        candidate == findCandidate(placed)
    IN  IF runPassMaxTop(placed) <= budget THEN placed
        ELSE IF candidate = 0 THEN placed
        ELSE IF it + 1 < Len(ls) + 2
        THEN coreLayoutsFrom(CollapseItem(placed, candidate), budget, it + 1)
        ELSE CollapseItem(placed, candidate)

coreLayouts(unsorted, budget) == coreLayoutsFrom(InitialLayouts(unsorted), budget, 0)

\* computeGanttBars
computeGanttBars(lookup, days, cw, maxLabelHeight) ==
    LET withRows     == barsWithRowsFrom(SortByStart(GanttBarsOf(lookup, days)), 1, <<>>, cw)
        labelLayouts == coreLayouts(labelInputs(withRows, days, cw), maxLabelHeight)
    IN  [i \in 1..Len(labelLayouts) |->
            LET bar == withRows[labelLayouts[i].index]
            IN  [label         |-> bar.bar.label,
                 startPosition |-> bar.bar.startPosition,
                 endPosition   |-> bar.bar.endPosition,
                 width         |-> bar.bar.width,
                 color         |-> bar.bar.color,
                 emoji         |-> bar.bar.emoji,
                 labelWidth    |-> bar.bar.labelWidth,
                 startIndex    |-> bar.bar.startIndex,
                 endIndex      |-> bar.bar.endIndex,
                 barRow        |-> bar.barRow,
                 left          |-> labelLayouts[i].left,
                 labelTop      |-> labelLayouts[i].top,
                 labelExpanded |-> ~labelLayouts[i].collapsed]]

\* the application loads a configuration that validateConfig has accepted
LoadConfig ==
    /\ cfgPc = "validated"
    /\ validation.valid
    /\ appStartDate' = DayOfDate(Get(configString.value, "startDate").v)
    /\ appTotalDays' = getDaysBetween(DayOfDate(Get(configString.value, "startDate").v),
                                      DayOfDate(Get(configString.value, "dueDate").v))
    /\ appMilestones' = MilestonesOf(configString.value)
    /\ cfgPc' = "loaded"
    /\ UNCHANGED <<configString, validation, rangeMilestoneLookup, ganttContainerWidth,
                   maxGanttLabelHeight, ganttBars>>
    /\ UNCHANGED nonConfigVars

\* TimelineView: the rangeMilestoneLookup memo
BuildLookup ==
    /\ cfgPc = "loaded"
    /\ rangeMilestoneLookup' = buildRangeMilestoneLookup(appMilestones, appStartDate)
    /\ cfgPc' = "lookup"
    /\ UNCHANGED <<configString, validation, appStartDate, appTotalDays, appMilestones,
                   ganttContainerWidth, maxGanttLabelHeight, ganttBars>>
    /\ UNCHANGED nonConfigVars

\* TimelineLandscape: the ganttBars memo
ComputeGanttBars ==
    /\ cfgPc = "lookup"
    /\ ganttContainerWidth' \in GanttContainerWidths
    /\ maxGanttLabelHeight' \in GanttLabelHeights
    /\ ganttBars' = computeGanttBars(rangeMilestoneLookup, appTotalDays,
                                     ganttContainerWidth', maxGanttLabelHeight')
    /\ cfgPc' = "bars"
    /\ UNCHANGED <<configString, validation, appStartDate, appTotalDays, appMilestones,
                   rangeMilestoneLookup>>
    /\ UNCHANGED nonConfigVars

NextConfig ==
    \/ CallValidateConfig
    \/ ReturnValidateConfig
    \/ LoadConfig
    \/ BuildLookup
    \/ ComputeGanttBars

SpecConfig == Init /\ [][NextConfig]_vars


\* ------------------------------------------------------------------------
\* The weekday columns of the calendar views (src/unnamed/part_001 WeeklyView,
\* src/unnamed/part_002 MonthlyView)
\* ------------------------------------------------------------------------
DAY_LABELS == <<"Sun", "Mon", "Tue", "Wed", "Thu", "Fri", "Sat">>
DAY_LABELS_SHORT == <<"S", "M", "T", "W", "T", "F", "S">>
DAY_LABELS_MON == <<"Mon", "Tue", "Wed", "Thu", "Fri", "Sat", "Sun">>
DAY_LABELS_MON_SHORT == <<"M", "T", "W", "T", "F", "S", "S">>

\* largest days.length of the calendar views, and their cell sizes
MaxCalendarDays == 64
CalendarCellSizes == {8, 20}

usedDayLabels(cellSize) == IF cellSize < 20 THEN DAY_LABELS_SHORT ELSE DAY_LABELS

usedDayLabelsMon(cellSize) == IF cellSize < 20 THEN DAY_LABELS_MON_SHORT ELSE DAY_LABELS_MON

\* WeeklyView: the weekData memo; week and dayOfWeek are counted from 1 here
weekData(days, startDayOfWeek0) ==
    [week \in 1..totalWeeks(startDayOfWeek0, days) |->
        [dayOfWeek \in 1..7 |->
            LET dayIndex == (week - 1) * 7 + (dayOfWeek - 1) - startDayOfWeek0
            IN  IF dayIndex >= 0 /\ dayIndex < days THEN dayIndex ELSE -1]]

\* mutant: the month grids start on Sunday
WeeklyMonthWeeksSundayFirst(m, days, dow0) ==
    LET monthStartDay == m * MONTH_DAYS
        monthEndDay   == Min((m + 1) * MONTH_DAYS - 1, days - 1)
        monthDayCount == monthEndDay - monthStartDay + 1
        monthStartDow == getDay(dow0, monthStartDay)
        numWeeks      == CeilDiv(monthStartDow + monthDayCount, 7)
    IN  [week \in 1..numWeeks |->
            [dow \in 1..7 |->
                LET dayInMonth == (week - 1) * 7 + (dow - 1) - monthStartDow
                    dayIndex   == monthStartDay + dayInMonth
                IN  IF dayInMonth >= 0 /\ dayInMonth < monthDayCount /\ dayIndex < days
                    THEN dayIndex ELSE -1]]

\* WeeklyView, monthSections memo: the weeks of the section of 30-day month m
WeeklyMonthWeeks(m, days, dow0) ==
    LET monthStartDay == m * MONTH_DAYS
        monthEndDay   == Min((m + 1) * MONTH_DAYS - 1, days - 1)
        monthDayCount == monthEndDay - monthStartDay + 1
        \* (addDays(startDate, monthStartDay).getDay() + 6) % 7
        monthStartDow == (getDay(dow0, monthStartDay) + 6) % 7
        numWeeks      == CeilDiv(monthStartDow + monthDayCount, 7)
    IN  [week \in 1..numWeeks |->
            [dow \in 1..7 |->
                LET dayInMonth == (week - 1) * 7 + (dow - 1) - monthStartDow
                    dayIndex   == monthStartDay + dayInMonth
                IN  IF dayInMonth >= 0 /\ dayInMonth < monthDayCount /\ dayIndex < days
                    THEN dayIndex ELSE -1]]

\* the rows of the sections m, m+1, ..., last, one under the other
RECURSIVE WeeklyMonthRowsFrom(_, _, _, _)
WeeklyMonthRowsFrom(m, numMonths, days, dow0) ==
    IF m >= numMonths THEN <<>>
    ELSE WeeklyMonthWeeks(m, days, dow0) \o WeeklyMonthRowsFrom(m + 1, numMonths, days, dow0)

RECURSIVE MonthlyViewRowsFrom(_, _, _)
MonthlyViewRowsFrom(m, days, dow0) ==
    IF m >= NUM_MONTHS THEN <<>>
    ELSE MonthSection(m, days, dow0).weeks \o MonthlyViewRowsFrom(m + 1, days, dow0)

\* A render is a function of the props: one render per behaviour is modelled.
\* WeeklyView in landscape, or in portrait with mode weekly: the labels of
\* usedDayLabels head the columns (rows, in landscape) of weekData
RenderWeeklyDays ==
    /\ calView = "none"
    /\ calView' \in {"weekly-landscape", "weekly-portrait"}
    /\ calStartDay' \in 0..6
    /\ calTotalDays' \in 1..MaxCalendarDays
    /\ calCellSize' \in CalendarCellSizes
    /\ calHeader' = usedDayLabels(calCellSize')
    /\ calWeeks' = weekData(calTotalDays', calStartDay')
    /\ UNCHANGED nonCalendarVars

\* WeeklyView in portrait with mode monthly: the labels of usedDayLabelsMon
\* head the first section, the sections follow one under the other
RenderWeeklyMonthSections ==
    /\ calView = "none"
    /\ calView' = "weekly-portrait-monthly"
    /\ calStartDay' \in 0..6
    /\ calTotalDays' \in 1..MaxCalendarDays
    /\ calCellSize' \in CalendarCellSizes
    /\ calHeader' = usedDayLabelsMon(calCellSize')
    /\ calWeeks' = WeeklyMonthRowsFrom(0, CeilDiv(calTotalDays', MONTH_DAYS),
                                       calTotalDays', calStartDay')
    /\ UNCHANGED nonCalendarVars

\* MonthlyView, landscape or portrait: the labels of usedDayLabelsMon head
\* the nine sections
RenderMonthlyView ==
    /\ calView = "none"
    /\ calView' \in {"monthly-landscape", "monthly-portrait"}
    /\ calStartDay' \in 0..6
    /\ calTotalDays' \in 1..MaxCalendarDays
    /\ calCellSize' \in CalendarCellSizes
    /\ calHeader' = usedDayLabelsMon(calCellSize')
    /\ calWeeks' = MonthlyViewRowsFrom(0, calTotalDays', calStartDay')
    /\ UNCHANGED nonCalendarVars

NextCalendar ==
    \/ RenderWeeklyDays
    \/ RenderWeeklyMonthSections
    \/ RenderMonthlyView

SpecCalendar == Init /\ [][NextCalendar]_vars

\* ------------------------------------------------------------------------
\* Helpers of the properties
\* ------------------------------------------------------------------------
CoreReturned == pc \in {"coreDone", "returned"} /\ ok # "none"

Items == 1..Len(layouts)

\* |leftA - leftB| >= (widthA + widthB)/2 + 8, on doubled quantities
FarEnough(a, b) ==
    LET d == IF a.left >= b.left THEN a.left - b.left ELSE b.left - a.left
    IN  2 * d >= a.width + b.width + 2 * MILESTONE_GAP

AllOverlapExpanded ==
    \A i, j \in 1..Len(unsortedMilestones) :
        LET d == unsortedMilestones[i].left - unsortedMilestones[j].left
        IN  d < EXPANDED_WIDTH + MILESTONE_GAP /\ -d < EXPANDED_WIDTH + MILESTONE_GAP

\* C1: in every layout the core returns, two distinct items with the same top
\* are at least (widthA + widthB)/2 + 8 apart, with their final widths.
C1_NoOverlapInLane ==
    CoreReturned =>
        \A i, j \in Items :
            (i # j /\ layouts[i].top = layouts[j].top) => FarEnough(layouts[i], layouts[j])

C1_Witness ==
    /\ CoreReturned
    /\ \E i, j \in Items : i # j /\ layouts[i].top = layouts[j].top
                           /\ layouts[i].collapsed /\ ~layouts[j].collapsed
    /\ \E i, j \in Items : i # j /\ layouts[i].top # layouts[j].top

\* C3: when the core returns ok=true, every item ends within the budget.
C3_FitsWhenOk ==
    (CoreReturned /\ ok = "true") =>
        \A i \in Items : layouts[i].top + ROW_HEIGHT <= maxHeight

C3_Witness ==
    /\ CoreReturned /\ ok = "true"
    /\ \E i \in Items : layouts[i].collapsed
    /\ \E i \in Items : layouts[i].top + ROW_HEIGHT = 2 * ROW_HEIGHT

\* C7 as stated: ok=false only with every item collapsed.
C7_AllCollapsedWhenNotOk ==
    (CoreReturned /\ ok = "false") => \A i \in Items : layouts[i].collapsed

\* C7 amended: when the core returns ok=false the layout does not fit and every
\* item that overlaps an item at the topmost top is collapsed.
C7_NoCandidateWhenNotOk ==
    (CoreReturned /\ ok = "false") =>
        /\ \E i \in Items : layouts[i].top + ROW_HEIGHT > maxHeight
        /\ \A i, j \in Items :
              ((\A k \in Items : layouts[k].top <= layouts[i].top)
                 /\ ~FarEnough(layouts[i], layouts[j]))
              => layouts[j].collapsed

C7_Witness ==
    /\ CoreReturned /\ ok = "false"
    /\ \E i \in Items : ~layouts[i].collapsed
    /\ \E i \in Items : layouts[i].collapsed


TopmostItems == {i \in Items : \A k \in Items : layouts[k].top <= layouts[i].top}

\* an expanded item overlaps an item at the topmost top
HasCandidate ==
    \E i \in TopmostItems, j \in Items :
        ~layouts[j].collapsed /\ ~FarEnough(layouts[i], layouts[j])

NonColouredCandidate ==
    \E i \in TopmostItems, j \in Items :
        ~layouts[j].collapsed /\ ~layouts[j].isColoured /\ ~FarEnough(layouts[i], layouts[j])

\* item c, and only item c, goes from expanded to collapsed
CollapsesExactly(c) ==
    /\ ~layouts[c].collapsed
    /\ layouts' = [layouts EXCEPT ![c].collapsed = TRUE, ![c].width = COLLAPSED_WIDTH]

\* C4: within one run a collapsed item stays collapsed, with width collapsedWidth.
C4_CollapsedStays ==
    /\ [](\A i \in Items : layouts[i].collapsed => layouts[i].width = COLLAPSED_WIDTH)
    /\ [][\A i \in Items :
            layouts[i].collapsed =>
                /\ i \in 1..Len(layouts')
                /\ layouts'[i].index = layouts[i].index
                /\ layouts'[i].collapsed
                /\ layouts'[i].width = COLLAPSED_WIDTH]_vars

C4_Witness ==
    /\ CoreReturned
    /\ passes >= 3
    /\ \E i, j \in Items : layouts[i].collapsed /\ ~layouts[j].collapsed

\* C5: the core terminates after at most N+2 passes (the number of passes is
\* bounded and every step of the loop makes progress towards that bound); a
\* pass that does not fit and has a candidate collapses exactly one expanded
\* item; with no candidate the loop stops at once with ok=false.
C5_BoundedCollapseLoop ==
    /\ [](passes <= Len(unsortedMilestones) + 2 /\ iter < Len(unsortedMilestones) + 2)
    /\ [][(pc = "pass" \/ pc = "collapse") =>
            (pc' = "coreDone" \/ passes' + iter' = passes + iter + 1)]_vars
    /\ [][pc = "collapse" =>
            IF HasCandidate
            THEN \E c \in Items : CollapsesExactly(c)
            ELSE layouts' = layouts /\ ok' = "false" /\ pc' = "coreDone"]_vars

C5_Witness ==
    /\ CoreReturned
    /\ ok = "false"
    /\ passes = Len(layouts) + 1
    /\ Len(layouts) >= 3
    /\ \E i \in Items : layouts[i].isColoured

\* C6 as stated: an expanded item is laid out with its own measured width.
C6_MeasuredWidthUsed ==
    (caller = "wrapper" /\ pc \in {"pass", "collapse", "coreDone", "returned"}) =>
        \A i \in Items, k \in 1..Len(unsortedMilestones) :
            (layouts[i].index = unsortedMilestones[k].index /\ ~layouts[i].collapsed)
            => layouts[i].width = unsortedMilestones[k].width

\* C8 as stated: 5 items that all overlap when expanded, maxHeight 100: the
\* returned layout uses at most 2 lanes, and a coloured item is never collapsed
\* while a non-coloured item is expanded.
Scenario4 ==
    /\ Len(unsortedMilestones) = 5
    /\ AllOverlapExpanded
    /\ maxHeight = 100
    /\ pc \in {"pass", "collapse", "coreDone", "returned"}

C8_TwoLanesNonColouredFirst ==
    Scenario4 =>
        /\ CoreReturned => \A i \in Items : layouts[i].top + ROW_HEIGHT <= 100
        /\ ~\E i, j \in Items : /\ layouts[i].isColoured /\ layouts[i].collapsed
                                /\ ~layouts[j].isColoured /\ ~layouts[j].collapsed

\* C8 amended: in that scenario the core returns either ok=true with at most 2
\* lanes in use, or ok=false with no expanded item overlapping a topmost item;
\* and a coloured item is collapsed only in a pass in which no non-coloured
\* expanded item overlaps a topmost item.
C8_TwoLanesOrNoCandidate ==
    /\ []((Scenario4 /\ CoreReturned) =>
            \/ ok = "true" /\ \A i \in Items : layouts[i].top + ROW_HEIGHT <= 100
            \/ ok = "false" /\ ~HasCandidate
                 /\ \E i \in Items : layouts[i].top + ROW_HEIGHT > 100)
    /\ [][(Scenario4 /\ pc = "collapse") =>
            \A c \in Items :
                (CollapsesExactly(c) /\ layouts[c].isColoured) => ~NonColouredCandidate]_vars

C8_Witness ==
    /\ Scenario4 /\ CoreReturned /\ ok = "true"
    /\ \E i \in Items : layouts[i].isColoured /\ layouts[i].collapsed
    /\ \E i \in Items : ~layouts[i].isColoured /\ layouts[i].collapsed
    /\ \E i \in Items : layouts[i].top = ROW_HEIGHT

\* C9 as stated: a single milestone is at top 0 and never collapsed, whenever
\* the wrapper produces a layout.
C9_SingleNeverCollapsed ==
    (pc = "returned" /\ Len(milestones) = 1 /\ Len(result) = 1) =>
        result[1].topPx = 0 /\ result[1].expanded

\* C10: for containerWidth > 0 and maxHeight > 0 the wrapper returns one entry
\* per input milestone, with expanded = not collapsed and topPx = the top of the
\* last pass, whether the core reported ok=true or ok=false.
C10_OneEntryPerMilestone ==
    (pc = "returned" /\ containerWidth > 0 /\ maxHeight > 0) =>
        /\ Len(result) = Len(milestones)
        /\ \A k \in 1..Len(milestones) :
              Cardinality({i \in 1..Len(result) : result[i].index = milestones[k].index}) = 1
        /\ \A i \in 1..Len(result) :
              \E j \in Items :
                  /\ layouts[j].index = result[i].index
                  /\ result[i].topPx = layouts[j].top
                  /\ result[i].expanded = ~layouts[j].collapsed

C10_Witness ==
    /\ pc = "returned" /\ containerWidth > 0 /\ maxHeight > 0
    /\ ok = "false"
    /\ Len(result) >= 2
    /\ \E i \in 1..Len(result) : result[i].topPx > 0

\* ------------------------------------------------------------------------
\* assignRows properties
\* ------------------------------------------------------------------------
\* |centerA - centerB| >= (widthA + widthB)/2 + 8
RowsFarEnough(a, b) ==
    LET ca == centerPx2(a, rowsContainerWidth)
        cb == centerPx2(b, rowsContainerWidth)
        d2 == IF ca >= cb THEN ca - cb ELSE cb - ca
    IN  d2 >= a.width + b.width + 2 * MILESTONE_GAP

\* C2: any two milestones that assignRows puts in the same row are at least
\* (widthA + widthB)/2 + 8 apart, whatever their number.
C2_NoOverlapInRow ==
    \A i, j \in 1..Len(rowsResult) :
        (i # j /\ rowsResult[i].row = rowsResult[j].row)
        => RowsFarEnough(rowsResult[i], rowsResult[j])

\* ------------------------------------------------------------------------
\* Pregnancy-month properties
\* ------------------------------------------------------------------------
\* the days shown by a section, and the number of its cells that show a day
SectionDays(sec) ==
    {sec.weeks[w][d] : w \in 1..Len(sec.weeks), d \in 1..7} \ {-1}

SectionCells(sec) ==
    Cardinality({<<w, d>> \in (1..Len(sec.weeks)) \X (1..7) : sec.weeks[w][d] # -1})

\* C11: the month boundaries start at 0, end at totalDays and never decrease;
\* section m of MonthlyView shows exactly the days of
\* [getMonthStart(m), getMonthStart(m+1)), each in one cell, so every day index
\* is in exactly one of the nine sections.
C11_MonthsTile ==
    /\ getMonthStart(0, totalDays) = 0
    /\ getMonthStart(NUM_MONTHS, totalDays) = totalDays
    /\ \A m \in 0..NUM_MONTHS - 1 :
          getMonthStart(m, totalDays) <= getMonthStart(m + 1, totalDays)
    /\ \A k \in 1..Len(monthSections) :
          /\ SectionDays(monthSections[k])
               = getMonthStart(k - 1, totalDays)..(getMonthStart(k, totalDays) - 1)
          /\ SectionCells(monthSections[k]) = Cardinality(SectionDays(monthSections[k]))
    /\ monthPc = "done" =>
          \A d \in 0..totalDays - 1 :
              Cardinality({k \in 1..NUM_MONTHS : d \in SectionDays(monthSections[k])}) = 1

C11_Witness ==
    /\ monthPc = "done"
    /\ totalDays = 274
    /\ startDow = 3
    /\ SectionCells(monthSections[1]) = 30
    /\ SectionCells(monthSections[2]) = 31

\* ------------------------------------------------------------------------
\* Grid sizing properties
\* ------------------------------------------------------------------------
\* min((availableWidth - gap*(numCols-1))/numCols, (availableHeight - gap*(numRows-1))/numRows)
UnclampedSize ==
    RatMin(<<grid.availableWidth - weeklyGridGap * (grid.numCols - 1), grid.numCols>>,
           <<grid.availableHeight - weeklyGridGap * (grid.numRows - 1), grid.numRows>>)

\* C12 as stated: the computed cellSize is an integer >= 8, and it is the
\* unclamped minimum of the two axes floored whenever that minimum is >= 8.
C12_CellSizeIntegerFloor ==
    gridPc = "rendered" =>
        /\ RatIsInteger(grid.cellSize)
        /\ ~RatLess(grid.cellSize, <<8, 1>>)
        /\ ~RatLess(UnclampedSize, <<8, 1>>) =>
              grid.cellSize[1] = RatFloor(UnclampedSize)[1] * grid.cellSize[2]

\* ------------------------------------------------------------------------
\* Gantt path properties
\* ------------------------------------------------------------------------
\* the milestones of the configuration that have an endDate
RangeMilestones == {i \in 1..Len(appMilestones) : appMilestones[i].hasEnd}

\* C13 as stated: the Gantt path yields one bar per milestone with an endDate
\* (as many bars as range milestones), and the bar of a milestone spans that
\* milestone's startIndex..endIndex.
C13_OneBarPerRange ==
    cfgPc = "bars" =>
        /\ Len(ganttBars) = Cardinality(RangeMilestones)
        /\ \A i \in RangeMilestones :
              \E k \in 1..Len(ganttBars) :
                  /\ ganttBars[k].label = appMilestones[i].label
                  /\ ganttBars[k].startIndex = appMilestones[i].date - appStartDate
                  /\ ganttBars[k].endIndex = appMilestones[i].endDate - appStartDate

\* C14 as stated: every bar that comes from an accepted configuration has
\* endIndex >= startIndex, endPosition >= startPosition and a width >= 0.
C14_BarsNotReversed ==
    cfgPc = "bars" =>
        \A k \in 1..Len(ganttBars) :
            /\ ganttBars[k].endIndex >= ganttBars[k].startIndex
            /\ ~RatLess(ganttBars[k].endPosition, ganttBars[k].startPosition)
            /\ ganttBars[k].width[1] >= 0

\* ------------------------------------------------------------------------
\* Validator properties
\* ------------------------------------------------------------------------
ValidateReturned == cfgPc \notin {"idle", "called"}

IsoOk(x) == x.t = "string" /\ MatchesIsoDate(x.v)
NonEmptyOk(x) == x.t = "string" /\ Len(x.v) >= 1
OptionalTextOk(x) == x.t \in {"undefined", "string"}

\* the keys of a document, and of a milestone entry, that break the schema
BadTopFields(doc) ==
    {k \in {"startDate", "dueDate"} : ~IsoOk(Get(doc, k))}
        \cup {k \in {"todayEmoji"} : ~NonEmptyOk(Get(doc, k))}
        \cup {k \in {"milestones"} : Get(doc, k).t # "array"}

BadEntryFields(e) ==
    {k \in {"date"} : ~IsoOk(Get(e, k))}
        \cup {k \in {"endDate"} : Get(e, k).t # "undefined" /\ ~IsoOk(Get(e, k))}
        \cup {k \in {"label", "emoji"} : ~NonEmptyOk(Get(e, k))}
        \cup {k \in {"color", "description"} : ~OptionalTextOk(Get(e, k))}

BadEntries(doc) ==
    {i \in 1..Len(Get(doc, "milestones").v) :
        \/ Get(doc, "milestones").v[i].t # "object"
        \/ BadEntryFields(Get(doc, "milestones").v[i]) # {}}

SatisfiesSchema(doc) ==
    /\ doc.t = "object"
    /\ BadTopFields(doc) = {}
    /\ BadEntries(doc) = {}

\* the error text names a key that breaks the schema (for an entry of the
\* milestones array: the entry, by its index counted from 0 or from 1)
NamesOffendingField(doc, error) ==
    \/ \E k \in BadTopFields(doc) : InSeq(k, error)
    \/ /\ Get(doc, "milestones").t = "array"
       /\ \E i \in BadEntries(doc) :
             /\ InSeq(ToString(i), error) \/ InSeq(ToString(i - 1), error)
             /\ LET e == Get(doc, "milestones").v[i]
                IN  IF e.t = "object" THEN \E k \in BadEntryFields(e) : InSeq(k, error)
                    ELSE InSeq("milestones", error)

C16_MilestoneErrorsOneBased ==
    (ValidateReturned /\ configString.parses /\ configString.value.t = "object"
       /\ BadTopFields(configString.value) = {} /\ BadEntries(configString.value) # {}) =>
        LET first == CHOOSE i \in BadEntries(configString.value) :
                         \A j \in BadEntries(configString.value) : i <= j
            error == validation.error
        IN  /\ Len(error) >= 5
            /\ error[1] = "Milestone "
            /\ error[2] = ToString(first)
            /\ error[3] = " "
            /\ error[5] = ": "

\* ------------------------------------------------------------------------
\* Lane assignment of the collapse engine
\* ------------------------------------------------------------------------
\* the layout is the one the last pass has written, under the widths it used
AfterPass == passes > 0 /\ pc \in {"collapse", "coreDone", "returned"}

\* the tops of the items before item i that overlap it
TakenBefore(i) == {layouts[j].top : j \in {j \in 1..i - 1 : ~FarEnough(layouts[i], layouts[j])}}

\* C17: after every pass the items are in ascending left order and each item
\* has top 42*k for the smallest k >= 0 such that no earlier overlapping item
\* has top 42*k; the leftmost item is at top 0.
C17_LowestFreeLane ==
    AfterPass =>
        /\ \A i, j \in Items : i < j => layouts[i].left <= layouts[j].left
        /\ \A i \in Items :
              \E k \in 0..Len(layouts) :
                  /\ layouts[i].top = ROW_HEIGHT * k
                  /\ ROW_HEIGHT * k \notin TakenBefore(i)
                  /\ \A k2 \in 0..k - 1 : ROW_HEIGHT * k2 \in TakenBefore(i)
        /\ Len(layouts) > 0 => layouts[1].top = 0

C17_Witness ==
    /\ AfterPass
    /\ \E i \in Items :
          /\ layouts[i].top = ROW_HEIGHT
          /\ TakenBefore(i) = {0, 2 * ROW_HEIGHT}

\* the largest number of items that overlap each other pairwise, under the
\* current widths, by enumeration of the sets of items
LargestCliquePairwise ==
    LET cliques == {S \in SUBSET Items :
                       \A i, j \in S : i # j => ~FarEnough(layouts[i], layouts[j])}
        sizes   == {Cardinality(S) : S \in cliques}
    IN  CHOOSE n \in sizes : \A m \in sizes : m <= n

\* Two items overlap exactly when their spans, widened by half the gap on each
\* side, intersect as open intervals; on doubled quantities the span of an
\* item is (SpanLeft, SpanRight).
SpanLeft(it) == 2 * it.left - it.width - MILESTONE_GAP

SpanRight(it) == 2 * it.left + it.width + MILESTONE_GAP

\* the items whose span covers the left end of the span of item i: they
\* overlap each other pairwise, and every set of pairwise overlapping items
\* lies in OverlappingAt(i) for its member i with the greatest SpanLeft
OverlappingAt(i) ==
    {j \in Items : /\ SpanLeft(layouts[j]) <= SpanLeft(layouts[i])
                   /\ SpanLeft(layouts[i]) < SpanRight(layouts[j])}

\* the same number as LargestCliquePairwise, without enumerating the subsets
LargestClique ==
    LET sizes == {Cardinality(OverlappingAt(i)) : i \in Items} \cup {0}
    IN  CHOOSE n \in sizes : \A m \in sizes : m <= n

\* the two computations of the largest set of pairwise overlapping items agree
CliqueComputationsAgree == LargestClique = LargestCliquePairwise

\* number of lanes in use: max top / 42 + 1
LanesUsed == runPassMaxTop(layouts) \div ROW_HEIGHT

\* C18 as stated: after every pass the number of lanes in use equals the
\* largest number of items that overlap each other pairwise.
C18_LanesEqualLargestClique ==
    AfterPass => LanesUsed = LargestClique

SameWidths == \A i, j \in Items : layouts[i].width = layouts[j].width

\* C18 amended: after every pass the number of lanes in use is at least the
\* largest number of items that overlap each other pairwise, and equal to it
\* when all items have the same width (all expanded, or all collapsed).
C18_LanesAtLeastLargestClique ==
    AfterPass =>
        /\ LanesUsed >= LargestClique
        /\ SameWidths => LanesUsed = LargestClique

C18_Witness ==
    /\ AfterPass
    /\ SameWidths
    /\ Len(layouts) >= 4
    /\ layouts[1].collapsed
    /\ LanesUsed = 2
    /\ \E i, j \in Items : i # j /\ layouts[i].top = layouts[j].top

\* the still-expanded items that overlap an item at the topmost top
CandidateItems ==
    {j \in Items : /\ ~layouts[j].collapsed
                   /\ \E i \in TopmostItems : ~FarEnough(layouts[i], layouts[j])}

\* item c is a leftmost item of the set S
LeftmostOf(c, S) == c \in S /\ \A j \in S : layouts[c].left <= layouts[j].left

\* C19: in a pass that does not fit, the item collapsed is a still-expanded
\* item overlapping an item at the topmost top: the leftmost non-coloured
\* candidate when there is one, otherwise the leftmost coloured candidate; a
\* coloured candidate is never collapsed while a non-coloured candidate exists.
C19_CollapseChoice ==
    [][pc = "collapse" =>
        \A c \in Items :
            CollapsesExactly(c) =>
                LET nonColoured == {j \in CandidateItems : ~layouts[j].isColoured}
                    coloured    == {j \in CandidateItems : layouts[j].isColoured}
                IN  /\ c \in CandidateItems
                    /\ IF nonColoured # {}
                       THEN LeftmostOf(c, nonColoured)
                       ELSE LeftmostOf(c, coloured)]_vars

\* two collapses have happened: a non-coloured item was collapsed although a
\* coloured item lies to its left, and a coloured item was collapsed while
\* another coloured item to its left is still expanded
C19_Witness ==
    /\ pc = "pass"
    /\ iter = 2
    /\ \E c, d, e \in Items :
          /\ layouts[c].collapsed /\ ~layouts[c].isColoured
          /\ layouts[d].collapsed /\ layouts[d].isColoured
          /\ layouts[d].left < layouts[c].left
          /\ ~layouts[e].collapsed /\ layouts[e].isColoured
          /\ layouts[e].left < layouts[d].left

\* the conflict test of assignRows between two placed milestones: not more
\* than the gap apart
RowsConflict(a, b) ==
    ~(\/ rightPx2(a, rowsContainerWidth) + 2 * MILESTONE_GAP < leftPx2(b, rowsContainerWidth)
      \/ leftPx2(a, rowsContainerWidth) - 2 * MILESTONE_GAP > rightPx2(b, rowsContainerWidth))

\* row r has no conflict for the k-th placed milestone: none of the
\* milestones placed before it in row r conflicts with it
ConflictFreeFor(k, r) ==
    \A j \in 1..k - 1 :
        rowsResult[j].row = r => ~RowsConflict(rowsResult[k], rowsResult[j])

\* row r comes before row q in the order 0, 1, -1, 2, -2, ...
RowBefore(r, q) ==
    LET abs(x) == IF x < 0 THEN -x ELSE x
    IN  abs(r) < abs(q) \/ (abs(r) = abs(q) /\ r > q)

\* C20: every milestone placed by assignRows is in the first row, in the
\* order 0, 1, -1, 2, -2, ..., that has no conflict with the milestones
\* placed before it: its row is conflict-free and every row before it in that
\* order has a conflict.
C20_NearestFreeRow ==
    \A k \in 1..Len(rowsResult) :
        /\ ConflictFreeFor(k, rowsResult[k].row)
        /\ \A r \in -Len(rowsResult)..Len(rowsResult) :
              RowBefore(r, rowsResult[k].row) => ~ConflictFreeFor(k, r)

\* the same, for the milestones that have a conflict-free row among the rows
\* searched (0, 1, -1, ..., maxSearch - 1, -(maxSearch - 1))
NearestFreeRowWithinSearch ==
    \A k \in 1..Len(rowsResult) :
        (\E r \in -(maxSearch - 1)..(maxSearch - 1) : ConflictFreeFor(k, r)) =>
            /\ ConflictFreeFor(k, rowsResult[k].row)
            /\ \A r \in -Len(rowsResult)..Len(rowsResult) :
                  RowBefore(r, rowsResult[k].row) => ~ConflictFreeFor(k, r)

\* a milestone placed by assignRows as an argument of overlapsX: its pixel
\* centre and its width
AsLaneItem(m) == [left |-> centerPx2(m, rowsContainerWidth) \div 2, width |-> m.width]

\* the centres of two placed milestones are exactly (widthA + widthB)/2 + 8 apart
ExactlyTouching(a, b) ==
    LET ca == centerPx2(a, rowsContainerWidth)
        cb == centerPx2(b, rowsContainerWidth)
        d2 == IF ca >= cb THEN ca - cb ELSE cb - ca
    IN  d2 = a.width + b.width + 2 * MILESTONE_GAP

\* C21: the range test of assignRows is the relation of overlapsX: for any two
\* placed milestones the two tests agree, the test is symmetric, and two
\* milestones exactly (widthA + widthB)/2 + 8 apart are not in conflict.
C21_SameOverlapRelation ==
    \A i, j \in 1..Len(rowsResult) :
        LET a == rowsResult[i]
            b == rowsResult[j]
        IN  /\ RowsConflict(a, b) <=> overlapsX(AsLaneItem(a), AsLaneItem(b))
            /\ RowsConflict(a, b) <=> RowsConflict(b, a)
            /\ overlapsX(AsLaneItem(a), AsLaneItem(b)) <=> overlapsX(AsLaneItem(b), AsLaneItem(a))
            /\ ExactlyTouching(a, b) => ~RowsConflict(a, b)

\* the two tests differ only for milestones that exactly touch
OverlapRelationsDifferOnlyAtTouch ==
    \A i, j \in 1..Len(rowsResult) :
        LET a == rowsResult[i]
            b == rowsResult[j]
        IN  /\ ~ExactlyTouching(a, b) =>
                  (RowsConflict(a, b) <=> overlapsX(AsLaneItem(a), AsLaneItem(b)))
            /\ RowsConflict(a, b) <=> RowsConflict(b, a)
            /\ ExactlyTouching(a, b) =>
                  RowsConflict(a, b) /\ ~overlapsX(AsLaneItem(a), AsLaneItem(b))

\* the pixel ends of a bar, as computeGanttBars computes them
BarLeftPx(b) == BarPx(b.startPosition, ganttContainerWidth)

BarRightPx(b) == BarPx(b.endPosition, ganttContainerWidth)

\* two bars are more than 4px apart: one ends more than 4px before the other
\* starts
BarsApart(a, b) ==
    \/ RatLess(RatPlus(BarRightPx(a), 4), BarLeftPx(b))
    \/ RatLess(RatPlus(BarRightPx(b), 4), BarLeftPx(a))

GanttBarItems == 1..Len(ganttBars)

\* bar a is placed before bar b: bars are processed by ascending start
\* position, bars with one start position in either order
PlacedBefore(a, b) == a # b /\ ~RatLess(ganttBars[b].startPosition, ganttBars[a].startPosition)

\* C22: each bar has the lowest bar row in which no bar placed before it lies
\* within 4px of it; two bars of one bar row are more than 4px apart; the bar
\* rows in use are 0..max, none of them unused.
C22_LowestFreeBarRow ==
    cfgPc = "bars" =>
        /\ \A a, b \in GanttBarItems :
              (a # b /\ ganttBars[a].barRow = ganttBars[b].barRow)
              => BarsApart(ganttBars[a], ganttBars[b])
        /\ \A b \in GanttBarItems :
              \A r \in 0..ganttBars[b].barRow - 1 :
                  \E a \in GanttBarItems :
                      /\ PlacedBefore(a, b)
                      /\ ganttBars[a].barRow = r
                      /\ ~BarsApart(ganttBars[a], ganttBars[b])
        /\ \A b \in GanttBarItems :
              /\ ganttBars[b].barRow >= 0
              /\ \A r \in 0..ganttBars[b].barRow : \E a \in GanttBarItems : ganttBars[a].barRow = r

\* three bars: the second overlaps the first, the third starts exactly 4px
\* after the end of the first and overlaps the second: bar rows 0, 1 and 2
C22_Witness ==
    /\ cfgPc = "bars"
    /\ Len(ganttBars) = 3
    /\ {ganttBars[b].barRow : b \in GanttBarItems} = {0, 1, 2}
    /\ \E a, b \in GanttBarItems :
          RatPlus(BarRightPx(ganttBars[a]), 4) = BarLeftPx(ganttBars[b])

\* three bars in two bar rows: the third is more than 4px after the first and
\* takes bar row 0 again
BarRowReused ==
    /\ cfgPc = "bars"
    /\ Len(ganttBars) = 3
    /\ {ganttBars[b].barRow : b \in GanttBarItems} = {0, 1}

\* the weekday of day i of the calendar view: 0 is Sunday
WeekdayOf(i) == getDay(calStartDay, i)

\* the cells <<row, column>> of the calendar view that hold a day
CalendarCells ==
    {c \in (1..Len(calWeeks)) \X (1..7) : calWeeks[c[1]][c[2]] # -1}

SundayFirstViews == {"weekly-landscape", "weekly-portrait"}

MondayFirstViews == {"weekly-portrait-monthly", "monthly-landscape", "monthly-portrait"}

SwapAt(s, k) ==
    [i \in 1..Len(s) |-> IF i = k THEN s[k + 1] ELSE IF i = k + 1 THEN s[k] ELSE s[i]]

Backwards(s) == [i \in 1..Len(s) |-> s[Len(s) + 1 - i]]

\* every item has the same top and the same collapsed flag in two layouts
SameTopAndCollapsed(a, b) ==
    /\ Len(a) = Len(b)
    /\ \A i \in 1..Len(a), j \in 1..Len(b) :
          a[i].index = b[j].index =>
              a[i].top = b[j].top /\ a[i].collapsed = b[j].collapsed

DistinctLefts ==
    \A i, j \in 1..Len(unsortedMilestones) :
        i # j => unsortedMilestones[i].left # unsortedMilestones[j].left

LowestFreeTop(i) ==
    ROW_HEIGHT * (CHOOSE k \in 0..Len(layouts) :
                      /\ ROW_HEIGHT * k \notin TakenBefore(i)
                      /\ \A h \in 0..k - 1 : ROW_HEIGHT * h \in TakenBefore(i))

\* C25: at every return of the core the tops are those of a lane-assignment
\* pass over the returned widths, no item was collapsed after the last pass
\* (the return after the loop is not taken: the last step was a pass, after
\* at most N collapses), and ok is true exactly when every item fits:
\* top + 42 <= maxHeight.
C25_ReturnSelfConsistent ==
    (pc = "coreDone") =>
        /\ \A i \in Items : layouts[i].top = LowestFreeTop(i)
        /\ layouts = runPassLayouts(layouts)
        /\ passes = iter + 1
        /\ iter <= Len(layouts)
        /\ iter = Cardinality({i \in Items : layouts[i].collapsed})
        /\ ok \in {"true", "false"}
        /\ (ok = "true") <=> (\A i \in Items : layouts[i].top + ROW_HEIGHT <= maxHeight)

\* a return with ok false after every item was collapsed, and the tops of the
\* collapsed items are not those of the first pass
C25_Witness ==
    /\ pc = "coreDone"
    /\ ok = "false"
    /\ Len(layouts) >= 3
    /\ iter = Len(layouts)
    /\ layouts # runPassLayouts(InitialLayouts(unsortedMilestones))
    /\ \E i, j \in Items : i # j /\ layouts[i].top = layouts[j].top

\* the stack height (max top + 42) of the first pass of the run, in which
\* every item is expanded
FirstPassHeight == runPassMaxTop(runPassLayouts(InitialLayouts(unsortedMilestones)))

\* the stack heights of the passes of a run that starts from the layouts ls
\* and does not fit
RECURSIVE PassHeightsFrom(_, _)
PassHeightsFrom(ls, it) ==
    LET placed    == runPassLayouts(ls)
        candidate == findCandidate(placed)
    IN  IF candidate = 0 \/ it + 1 >= Len(ls) + 2 THEN <<runPassMaxTop(placed)>>
        ELSE <<runPassMaxTop(placed)>> \o PassHeightsFrom(CollapseItem(placed, candidate), it + 1)

\* C26 as stated: the stack height computed by a pass is less than or equal
\* to the height computed by the pass before it (whose tops the layouts still
\* hold when the pass starts).
C26_HeightNeverGrows ==
    [][(pc = "pass" /\ passes >= 1) =>
            runPassMaxTop(layouts') <= runPassMaxTop(layouts)]_vars

\* C26 amended: the stack height computed by a pass is never greater than
\* the height computed by the first pass of the run.
C26_HeightAtMostFirstPass ==
    AfterPass => runPassMaxTop(layouts) <= FirstPassHeight

\* a run of six passes in which the height goes down, up and down again
C26_Witness ==
    /\ pc = "coreDone"
    /\ passes = 6
    /\ LET heights == PassHeightsFrom(InitialLayouts(unsortedMilestones), 0)
       IN  /\ Len(heights) = passes
           /\ \E k \in 2..Len(heights) - 1 :
                 heights[k] < heights[k - 1] /\ heights[k] < heights[k + 1]
           /\ heights[Len(heights)] = runPassMaxTop(layouts)
           /\ heights[Len(heights)] < heights[1]

\* the months whose section [getMonthStart(m), getMonthStart(m + 1)) holds the day
SectionsOfDay(dayIndex, days) ==
    {m \in 0..NUM_MONTHS - 1 :
        getMonthStart(m, days) <= dayIndex /\ dayIndex < getMonthStart(m + 1, days)}

\* C27: for every totalDays >= 1 and every dayIndex in [0, totalDays),
\* getMonthForDay(dayIndex, totalDays) = m exactly when
\* getMonthStart(m, totalDays) <= dayIndex < getMonthStart(m + 1, totalDays).
C27_MonthForDayIsSection ==
    (forTotalDays >= 1 /\ forDayIndex < forTotalDays) =>
        \A m \in 0..NUM_MONTHS - 1 :
            monthForDay = m <=> m \in SectionsOfDay(forDayIndex, forTotalDays)

\* what does hold: the day lies in exactly one section and the month returned
\* is a month index; when no section is empty (at least NUM_MONTHS days) it is
\* that section or the one before it
MonthForDayWithinOneSection ==
    (forTotalDays >= 1 /\ forDayIndex < forTotalDays) =>
        /\ Cardinality(SectionsOfDay(forDayIndex, forTotalDays)) = 1
        /\ monthForDay \in 0..NUM_MONTHS - 1
        /\ forTotalDays >= NUM_MONTHS =>
            \E m \in 0..NUM_MONTHS - 1 :
                /\ SectionsOfDay(forDayIndex, forTotalDays) = {m}
                /\ monthForDay \in {m - 1, m}

\* the landscape MonthlyView has been laid out with a cellSize above the floor
LandscapeAboveFloor ==
    /\ monthPc = "sized"
    /\ monthlyIsLandscape
    /\ monthlyGrid.cellSize # NaN
    /\ RatLess(<<8, 1>>, monthlyGrid.cellSize)

\* the sum over the sections of weeks * cellSize + (weeks - 1) * gap
RECURSIVE SectionWidthsFrom(_)
SectionWidthsFrom(k) ==
    IF k > Len(monthSections) THEN 0
    ELSE Len(monthSections[k].weeks) * monthlyGrid.cellSize[1]
         + (Len(monthSections[k].weeks) - 1) * monthlyGrid.gap
         + SectionWidthsFrom(k + 1)

\* horizontal padding, day-label column, the nine gaps between the ten
\* children of the wrapper, and the nine sections
LandscapeRowWidth ==
    2 * hPadding + dayLabelColWidth + 9 * sectionGap + SectionWidthsFrom(1)

\* C28: in the landscape MonthlyView, whenever the computed cellSize is above
\* the 8px floor, the laid-out row is at most as wide as the window.
C28_LandscapeRowFits ==
    LandscapeAboveFloor => LandscapeRowWidth <= monthlyWindowSize.width

\* what does hold: the row is wider than the window by at most one
\* inter-section gap
LandscapeRowWithinOneGap ==
    LandscapeAboveFloor => LandscapeRowWidth <= monthlyWindowSize.width + sectionGap

\* the step is a call of handleVersionTap, or the expiry of a reset timer
IsTapStep == tapCalls' = tapCalls + 1
IsExpiryStep == tapCalls' = tapCalls /\ pendingTapTimers' # pendingTapTimers

\* C29: onShowVersion is called exactly on a tap that is the third of three
\* consecutive taps with no timer expiry between them, and after it the
\* counter is 0 and no timer is pending; between events the counter is 0, 1
\* or 2 and a reset timer is pending exactly when the counter is above 0; a
\* timer expiry resets the counter to 0, and the tap after it counts as the
\* first.
C29_ThirdTapShowsVersion ==
    /\ [](/\ versionTapCount \in 0..2
          /\ (pendingTapTimers # {}) <=> (versionTapCount > 0)
          /\ Cardinality(pendingTapTimers) <= 1)
    /\ [][/\ shownVersions' \in {shownVersions, shownVersions + 1}
          /\ (shownVersions' = shownVersions + 1) <=> (IsTapStep /\ tapStreak = 2)
          /\ (shownVersions' = shownVersions + 1) =>
                 (versionTapCount' = 0 /\ pendingTapTimers' = {})
          /\ IsExpiryStep => versionTapCount' = 0
          /\ (IsTapStep /\ tapStreak = 0) =>
                 (versionTapCount' = 1 /\ shownVersions' = shownVersions)]_vars

\* a tap, an expiry, and then three taps that show the version
C29_Witness ==
    /\ tapCalls = 4
    /\ shownVersions = 1
    /\ versionTapCount = 0
    /\ pendingTapTimers = {}

\* C30: at most one polling timer is pending at any time; once the cleanup of
\* the effect has run, neither its polling timer nor its resize listener
\* updates the size; the cleanup cancels the most recently scheduled timer
\* (while the effect is active, the one pending timer is the timer of
\* timeoutId, and after the cleanup no timer and no listener is left).
C30_CleanupStopsPolling ==
    /\ Cardinality(pendingPollTimers) <= 1
    /\ lateUpdates = 0
    /\ activeEffect = 0 => (pendingPollTimers = {} /\ resizeListeners = {})
    /\ activeEffect # 0 =>
          /\ resizeListeners = {activeEffect}
          /\ \E t \in pendingPollTimers :
                /\ pendingPollTimers = {t}
                /\ t.id = timeoutId[activeEffect]
                /\ t.id = nextPollTimerId - 1
                /\ t.effect = activeEffect

\* an effect polled twice, saw a resize and was cleaned up
C30_Witness ==
    /\ activeEffect = 0
    /\ effectsRun = 1
    /\ nextPollTimerId = 4
    /\ resizeEvents = 1
    /\ sizeUpdates = 4
    /\ pendingPollTimers = {}
====
